---- MODULE Spec2Model ----
(***************************************************************************)
(* A model of qiskit/pulse/schedule.py: the Schedule class (the eager      *)
(* program tree), its per-channel timeslot bookkeeping and the interval    *)
(* helpers at the end of the file.                                         *)
(*                                                                         *)
(* Schedule objects live in a heap (a sequence, the index is the object's  *)
(* identity) because children are held by reference.  An Instruction is a  *)
(* value.  A component is one record shape for both:                       *)
(*   [kind, dur, ch, par, id]    kind = "Schedule" -> id is the heap index *)
(*                               otherwise a leaf on channel ch            *)
(* Intervals are pairs <<start, stop>>.  Python indices are 0-based and    *)
(* kept 0-based in the index-returning helpers; sequences are 1-based.     *)
(***************************************************************************)
EXTENDS Integers, Sequences, FiniteSets, TLC

\* ------------------------------------------------------------------ bounds
\* Largest number of Schedule objects kept in the heap.
MaxObjs == 4
\* Largest number of public calls in one run.
MaxOps == 3
\* Largest integer time argument of insert / shift.
MaxTime == 1
\* Largest number of Schedule objects once the two sides of an identity
\* (filter | exclude, shift twice, replace back) have added theirs.
MaxLawObjs == 7
\* Largest number of ScheduleBlock objects kept.
MaxBlocks == 4
\* Largest number of public ScheduleBlock calls in one run.
MaxBlockOps == 4
\* Largest number of calls in a run that ends with a comparison a == b.
MaxEqOps == 4
\* Largest time of an interval handed to the interval helpers, and the
\* largest length of the interval list handed to them.
MaxPoint == 4
MaxLen == 3
\* disassemble: experiments of a Qobj, instructions of an experiment
MaxExperiments == 2
MaxInstructions == 2

\* ---------------------------------------------------------------- universe
\* DriveChannel(0) is an ordinary channel; DriveChannel(1) is one of the
\* hard-coded "DP" channels of _mutable_insert and append; DriveChannel(2) is
\* a third channel for the instructions inserted in several orders.
Channels == {"d0", "d1", "d2"}
dp_channels_idx == {"d24", "d1"}

Leaf(k, d, c, p) == [kind |-> k, dur |-> d, ch |-> c, par |-> p, id |-> 0]
SchedRef(i) == [kind |-> "Schedule", dur |-> 0, ch |-> "-", par |-> {}, id |-> i]

\* The instructions the calls draw from: Play and Delay have a positive
\* duration, ShiftPhase has duration 0; the Play on d0 has a free parameter.
Leaves ==
    { Leaf("Play", 2, "d0", {"a"}), Leaf("ShiftPhase", 0, "d0", {}),
      Leaf("Play", 2, "d1", {}), Leaf("Delay", 3, "d1", {}) }

\* A time argument: an integer, or a non-integer number such as 0.5.
IntTime(v) == [int |-> TRUE, v |-> v]
NonIntTime == [int |-> FALSE, v |-> 0]
TimeArgs == { IntTime(v) : v \in -1..MaxTime } \cup { NonIntTime }

\* ------------------------------------------------------------- small helpers
Max2(a, b) == IF a >= b THEN a ELSE b
Min2(a, b) == IF a <= b THEN a ELSE b

InsertAt(s, i, e) == SubSeq(s, 1, i) \o <<e>> \o SubSeq(s, i + 1, Len(s))
ShiftIv(iv, t) == <<iv[1] + t, iv[2] + t>>
ShiftList(l, t) == [i \in 1..Len(l) |-> ShiftIv(l[i], t)]
InSeq(s, e) == \E i \in 1..Len(s) : s[i] = e

\* ---------------------------------------------------------- interval algebra
\* A faulty _overlaps: the two intervals are not put in start order.
OverlapsAsGiven(first, second) ==
    IF first[1] = second[1] /\ second[1] = second[2] THEN FALSE
    ELSE second[1] < first[2]
\* _overlaps(first, second)
_overlaps(first, second) ==
    IF first[1] = second[1] /\ second[1] = second[2] THEN FALSE
    ELSE IF first[1] > second[1] THEN first[1] < second[2]
    ELSE second[1] < first[2]

\* _locate_interval_index(intervals, interval, index): 0-based index.
RECURSIVE _locate_interval_index(_, _, _)
_locate_interval_index(intervals, interval, index) ==
    IF Len(intervals) <= 1 THEN index
    ELSE LET mid_idx == Len(intervals) \div 2
             mid == intervals[mid_idx + 1]
         IN  IF interval[2] <= mid[1] /\ interval # mid
             THEN _locate_interval_index(SubSeq(intervals, 1, mid_idx), interval, index)
             ELSE _locate_interval_index(SubSeq(intervals, mid_idx + 1, Len(intervals)),
                                         interval, index + mid_idx)

\* A faulty _find_insertion_index: the located neighbour is not tested for
\* overlap.  C1 does not survive it.
IndexWithoutOverlapTest(intervals, new_interval, index) ==
    IF index < Len(intervals)
    THEN [raised |-> FALSE,
          index |-> IF new_interval[2] <= intervals[index + 1][1]
                    THEN index ELSE index + 1]
    ELSE [raised |-> FALSE, index |-> index]

\* _find_insertion_index(intervals, new_interval) once the binary search
\* has returned index: [raised, index]; raised stands for
\* PulseError("New interval overlaps with existing."), index is 0-based.
InsertionIndexAt(intervals, new_interval, index) ==
    IF index < Len(intervals)
    THEN IF _overlaps(intervals[index + 1], new_interval)
         THEN [raised |-> TRUE, index |-> index]
         ELSE [raised |-> FALSE,
               index |-> IF new_interval[2] <= intervals[index + 1][1]
                         THEN index ELSE index + 1]
    ELSE [raised |-> FALSE, index |-> index]

_find_insertion_index(intervals, new_interval) ==
    InsertionIndexAt(intervals, new_interval,
                     _locate_interval_index(intervals, new_interval, 0))

\* _check_nonnegative_timeslot(timeslots): TRUE when the code raises.
_check_nonnegative_timeslot(keys, iv) ==
    \E k \in 1..Len(keys) : iv[keys[k]] # <<>> /\ iv[keys[k]][1][1] < 0

\* ------------------------------------------------------------ Schedule state
\* A Schedule object.  _timeslots is a dict: keys is its key order (the
\* order channels were first added), iv its lists; a channel is a key
\* exactly when its list is not empty.
EmptyIv == [c \in Channels |-> <<>>]
EmptySched ==
    [keys |-> <<>>, iv |-> EmptyIv, children |-> <<>>, duration |-> 0, params |-> {},
     name |-> 0, metadata |-> {}]

\* The object Schedule.__init__ sets up before its inserts.  A name is the
\* number n of the auto-generated "sched<n>"; metadata is the set of the
\* dict's keys (None becomes {}).
NewSchedule(name, metadata) == [EmptySched EXCEPT !.name = name, !.metadata = metadata]

\* A faulty initialize_from: the name of the other program is dropped.
InitializeFromUnnamed(o) == NewSchedule(0, o.metadata)
\* Schedule.initialize_from(other_program): the name and a copy of the
\* metadata of object o.
initialize_from(o) == NewSchedule(o.name, o.metadata)

Child(t, c) == [t |-> t, c |-> c]
IsSched(c) == c.kind = "Schedule"
SetOf(s) == { s[i] : i \in 1..Len(s) }

\* schedule.channels, schedule.duration, schedule.parameters of a component
CompChannels(h, c) == IF IsSched(c) THEN h[c.id].keys ELSE <<c.ch>>
CompDuration(h, c) == IF IsSched(c) THEN h[c.id].duration ELSE c.dur
CompParams(h, c) == IF IsSched(c) THEN h[c.id].params ELSE c.par

\* _get_timeslots(schedule)
_get_timeslots(h, c) ==
    IF IsSched(c) THEN h[c.id].iv
    ELSE [x \in Channels |-> IF x = c.ch THEN << <<0, c.dur>> >> ELSE <<>>]

\* An outcome of a step on one object: the object as the step leaves it
\* (also when it raises) and the error ("none" when it returns).
Res(o, err) == [o |-> o, err |-> err]

\* The inner loop of _add_timeslots over other_timeslots[channel], from
\* position idx on: [list, err].
RECURSIVE AddIntervals(_, _, _, _), AddIntervalAt(_, _, _, _, _)
AddIntervals(list, others, time, idx) ==
    IF idx > Len(others) THEN [list |-> list, err |-> "none"]
    ELSE IF others[idx][1] + time >= list[Len(list)][2]
         THEN [list |-> list \o ShiftList(SubSeq(others, idx, Len(others)), time),
               err |-> "none"]
    ELSE AddIntervalAt(list, others, time, idx,
                       _find_insertion_index(list, ShiftIv(others[idx], time)))
AddIntervalAt(list, others, time, idx, found) ==
    IF found.raised THEN [list |-> list, err |-> "Overlap"]
    ELSE AddIntervals(InsertAt(list, found.index, ShiftIv(others[idx], time)),
                      others, time, idx + 1)

\* The loop of _add_timeslots over schedule.channels, from position k on:
\* [keys, iv, err].
RECURSIVE AddChannels(_, _, _, _, _, _), AddChannelDone(_, _, _, _, _, _, _)
AddChannels(keys, iv, chans, other, time, k) ==
    IF k > Len(chans) THEN [keys |-> keys, iv |-> iv, err |-> "none"]
    ELSE IF ~InSeq(keys, chans[k])
         THEN AddChannels(Append(keys, chans[k]),
                          [iv EXCEPT ![chans[k]] = ShiftList(other[chans[k]], time)],
                          chans, other, time, k + 1)
         ELSE AddChannelDone(keys, iv, chans, other, time, k,
                             AddIntervals(iv[chans[k]], other[chans[k]], time, 1))
AddChannelDone(keys, iv, chans, other, time, k, r) ==
    IF r.err # "none"
    THEN [keys |-> keys, iv |-> [iv EXCEPT ![chans[k]] = r.list], err |-> r.err]
    ELSE AddChannels(keys, [iv EXCEPT ![chans[k]] = r.list], chans, other, time, k + 1)

\* The end of _add_timeslots: the loop has left r, then the check of line 738.
AddTimeslotsEnd(o, dur, r) ==
    Res([o EXCEPT !.duration = dur, !.keys = r.keys, !.iv = r.iv],
        IF r.err # "none" THEN r.err
        ELSE IF _check_nonnegative_timeslot(r.keys, r.iv) THEN "Timing" ELSE "none")

\* A faulty _add_timeslots: the type of time is not tested (a non-integer
\* time counts as 0).  C7 does not survive it.
AddTimeslotsAnyTime(h, o, time, c) ==
    AddTimeslotsEnd(o, Max2(o.duration, time.v + CompDuration(h, c)),
                    AddChannels(o.keys, o.iv, CompChannels(h, c),
                                _get_timeslots(h, c), time.v, 1))

\* A faulty _add_timeslots: the duration is that of the component added
\* last, not the maximum.  C22 does not survive it.
AddTimeslotsLastStop(h, o, time, c) ==
    IF ~time.int THEN Res(o, "Timing")
    ELSE AddTimeslotsEnd(o, time.v + CompDuration(h, c),
                         AddChannels(o.keys, o.iv, CompChannels(h, c),
                                     _get_timeslots(h, c), time.v, 1))

\* Schedule._add_timeslots(time, schedule) on object o.
_add_timeslots(h, o, time, c) ==
    IF ~time.int THEN Res(o, "Timing")
    ELSE AddTimeslotsEnd(o, Max2(o.duration, time.v + CompDuration(h, c)),
                         AddChannels(o.keys, o.iv, CompChannels(h, c),
                                     _get_timeslots(h, c), time.v, 1))

\* The loops of _add_timeslots once more, for the text of the PulseError
\* raised at lines 723-736: the interval at which the inner loop raises ...
RECURSIVE RaisedAtInterval(_, _, _, _), RaisedAtIntervalNext(_, _, _, _, _)
RaisedAtInterval(list, others, time, idx) ==
    RaisedAtIntervalNext(list, others, time, idx,
                         _find_insertion_index(list, ShiftIv(others[idx], time)))
RaisedAtIntervalNext(list, others, time, idx, found) ==
    IF found.raised THEN ShiftIv(others[idx], time)
    ELSE RaisedAtInterval(InsertAt(list, found.index, ShiftIv(others[idx], time)),
                          others, time, idx + 1)
\* ... and the channel the outer loop is at: [ch, interval].
RECURSIVE RaisedAtChannel(_, _, _, _, _, _), RaisedAtChannelNext(_, _, _, _, _, _, _)
RaisedAtChannel(keys, iv, chans, other, time, k) ==
    IF ~InSeq(keys, chans[k])
    THEN RaisedAtChannel(Append(keys, chans[k]),
                         [iv EXCEPT ![chans[k]] = ShiftList(other[chans[k]], time)],
                         chans, other, time, k + 1)
    ELSE RaisedAtChannelNext(keys, iv, chans, other, time, k,
                             AddIntervals(iv[chans[k]], other[chans[k]], time, 1))
RaisedAtChannelNext(keys, iv, chans, other, time, k, r) ==
    IF r.err # "none"
    THEN [ch |-> chans[k],
          interval |-> RaisedAtInterval(iv[chans[k]], other[chans[k]], time, 1)]
    ELSE RaisedAtChannel(keys, [iv EXCEPT ![chans[k]] = r.list], chans, other, time, k + 1)

\* The values formatted into the message of that PulseError: the names of
\* the two schedules (an Instruction's name is None, here -1), the insertion
\* time, the channel and the interval being inserted.
MessageOf(new, old, time, at) ==
    [new |-> new, old |-> old, time |-> time, ch |-> at.ch,
     t0 |-> at.interval[1], tf |-> at.interval[2]]
OverlapMessage(h, o, time, c) ==
    MessageOf(IF IsSched(c) THEN h[c.id].name ELSE -1, o.name, time.v,
              RaisedAtChannel(o.keys, o.iv, CompChannels(h, c), _get_timeslots(h, c),
                              time.v, 1))
\* No message recorded.
NoMessage == [new |-> -1, old |-> -1, time |-> 0, ch |-> "-", t0 |-> 0, tf |-> 0]

\* --------------------------------------------------------------- flattening
\* Schedule._instructions(time) / Instruction._instructions(time): the
\* (time, instruction) pairs of the tree in depth-first child order.
RECURSIVE _instructions(_, _, _), FlattenChildren(_, _, _)
_instructions(h, c, time) ==
    IF IsSched(c) THEN FlattenChildren(h, h[c.id].children, time)
    ELSE << Child(time, c) >>
FlattenChildren(h, children, time) ==
    IF children = <<>> THEN <<>>
    ELSE _instructions(h, children[1].c, time + children[1].t)
         \o FlattenChildren(h, Tail(children), time)

\* The sort key of Schedule.instructions: (time, duration, sorted channel
\* names); ChanRank is the order of the channel names as strings.
ChanRank(ch) == IF ch = "d0" THEN 0 ELSE IF ch = "d1" THEN 1 ELSE 2
\* A key that holds the time only.
KeyLessByTime(a, b) == a.t < b.t
KeyLess(a, b) ==
    \/ a.t < b.t
    \/ a.t = b.t /\ a.c.dur < b.c.dur
    \/ a.t = b.t /\ a.c.dur = b.c.dur /\ ChanRank(a.c.ch) < ChanRank(b.c.ch)

\* sorted(pairs, key=key): Python's sort is stable.
RECURSIVE SortedInsert(_, _)
SortedInsert(sorted, e) ==
    IF sorted = <<>> THEN <<e>>
    ELSE IF KeyLess(e, sorted[Len(sorted)])
         THEN Append(SortedInsert(SubSeq(sorted, 1, Len(sorted) - 1), e),
                     sorted[Len(sorted)])
         ELSE Append(sorted, e)
RECURSIVE SortByKey(_)
SortByKey(pairs) ==
    IF pairs = <<>> THEN <<>>
    ELSE SortedInsert(SortByKey(SubSeq(pairs, 1, Len(pairs) - 1)), pairs[Len(pairs)])

\* Schedule.instructions / Instruction.instructions of a component
Instructions(h, c) == SortByKey(_instructions(h, c, 0))

\* ----------------------------------------------------------------- equality
\* Instruction.__eq__ is structural; Schedule.__eq__(self, other) accepts a
\* Schedule or an Instruction as other.  The left operand decides.
\* zip(...) alone, without the size check of line 959: the longer sequence
\* is cut to the length of the shorter.
ZipOnly(ia, ib) == \A k \in 1..Min2(Len(ia), Len(ib)) : ia[k] = ib[k]
SameInstructions(ia, ib) == Len(ia) = Len(ib) /\ ia = ib
ComponentEq(h, a, b) ==
    IF ~IsSched(a) THEN (~IsSched(b) /\ a = b)
    ELSE /\ SetOf(CompChannels(h, a)) = SetOf(CompChannels(h, b))
         /\ SameInstructions(Instructions(h, a), Instructions(h, b))

\* ------------------------------------------------------------ plain insert
\* The last three statements of _mutable_insert on object o:
\* _add_timeslots (outcome r), _children.append, update_parameter_table.
InsertTailEnd(h, time, c, r) ==
    IF r.err # "none" THEN r
    ELSE Res([r.o EXCEPT !.children = Append(@, Child(time.v, c)),
                         !.params = @ \cup CompParams(h, c)], "none")
InsertTail(h, o, time, c) == InsertTailEnd(h, time, c, _add_timeslots(h, o, time, c))

\* Inserting instructions one by one into o (each is an Instruction, so
\* _mutable_insert goes straight to its last three statements).
RECURSIVE InsertAll(_, _, _), InsertAllNext(_, _, _)
InsertAll(h, o, pairs) ==
    IF pairs = <<>> THEN Res(o, "none")
    ELSE InsertAllNext(h, InsertTail(h, o, IntTime(pairs[1].t), pairs[1].c), pairs)
InsertAllNext(h, r, pairs) ==
    IF r.err # "none" THEN r ELSE InsertAll(h, r.o, Tail(pairs))

\* ------------------------------------------------------------ filter/exclude
\* A filter: channels (or all), one time range (or none).
NoFilters == [useCh |-> FALSE, chs |-> {}, useRange |-> FALSE, lo |-> 0, hi |-> 0]
ChannelFilter(chs) == [useCh |-> TRUE, chs |-> chs, useRange |-> FALSE, lo |-> 0, hi |-> 0]
RangeFilter(chs, lo, hi) ==
    [useCh |-> TRUE, chs |-> chs, useRange |-> TRUE, lo |-> lo, hi |-> hi]

Passes(f, p) ==
    /\ f.useCh => p.c.ch \in f.chs
    /\ f.useRange => (f.lo <= p.t /\ p.t + p.c.dur <= f.hi)
HasFilters(f) == f.useCh \/ f.useRange

\* The (time, instruction) pairs filter (negate = FALSE) or exclude (TRUE)
\* keeps, in the order of Schedule.instructions.
Selected(all, f, negate) ==
    LET Keep(p) == IF negate /\ HasFilters(f) THEN ~Passes(f, p) ELSE Passes(f, p)
    IN  SelectSeq(all, Keep)

\* filter_instructions(sched, filters, negate): a new flat Schedule holding
\* the selected pairs, built by insert.
filter_instructions(h, c, f, negate) ==
    InsertAll(h, initialize_from(h[c.id]), Selected(Instructions(h, c), f, negate))

\* ----------------------------------------------- the DP-channel merge loop
\* merge_slots_pulse_delay(pulse_slot, delay_slot): [none, iv]
merge_slots_pulse_delay(pulse_slot, delay_slot) ==
    IF delay_slot[1] < pulse_slot[1] /\ delay_slot[2] > pulse_slot[1]
    THEN [none |-> FALSE, iv |-> <<delay_slot[1], pulse_slot[1]>>]
    ELSE IF delay_slot[1] < pulse_slot[2] /\ delay_slot[2] > pulse_slot[2]
    THEN [none |-> FALSE, iv |-> <<pulse_slot[2], delay_slot[2]>>]
    ELSE [none |-> TRUE, iv |-> <<0, 0>>]

\* slots_overlap(slot_inner, slot_outer)
slots_overlap(slot_inner, slot_outer) ==
    slot_outer[1] <= slot_inner[1] \/ slot_inner[2] <= slot_outer[2]

\* expand_slot(slot_inner, slot_outer): [none, iv]; the else branch builds a
\* ValueError without raising it, so the function returns None there.
expand_slot(slot_inner, slot_outer) ==
    IF slots_overlap(slot_inner, slot_outer)
    THEN [none |-> FALSE,
          iv |-> <<Min2(slot_inner[1], slot_outer[1]), Max2(slot_inner[2], slot_outer[2])>>]
    ELSE [none |-> TRUE, iv |-> <<0, 0>>]

\* inst_outer.pulse.merge(inst_inner.pulse, int_outer, int_inner) followed by
\* the widening of int_outer: the merged Play covers the widened slot.
MergedPlay(inst_outer, int_new) == [inst_outer EXCEPT !.dur = int_new[2] - int_new[1]]

\* list.remove(x): drops the first element equal to x.
RECURSIVE RemoveFirst(_, _)
RemoveFirst(l, x) ==
    IF l = <<>> THEN <<>>
    ELSE IF l[1] = x THEN Tail(l) ELSE <<l[1]>> \o RemoveFirst(Tail(l), x)

\* The state of one pass of the while loop: the popped (t_outer,
\* inst_outer) with int_outer (none = all three are None).
Outer(t, inst, iv) == [none |-> FALSE, t |-> t, inst |-> inst, iv |-> iv]
OuterNone == [none |-> TRUE, t |-> 0, inst |-> Leaf("None", 0, "-", {}), iv |-> <<0, 0>>]
Step(err, outer, l) == [err |-> err, outer |-> outer, l |-> l]

\* Play meets Play: pulse.merge, expand_slot (outcome e), t_outer = int_outer[0]
\* (a TypeError when expand_slot returned None), list.remove.
PlayPlay(outer, l, inner, e) ==
    IF e.none THEN Step("TypeError", outer, l)
    ELSE Step("none", Outer(e.iv[1], MergedPlay(outer.inst, e.iv), e.iv),
              RemoveFirst(l, inner))
\* Play meets Delay: with a new delay slot m the code reaches
\* sched1_instructions.sort, and sched1_instructions is a tuple.
PlayDelay(outer, l, inner, m) ==
    IF ~m.none THEN Step("AttributeError", outer, l)
    ELSE Step("none", outer, RemoveFirst(l, inner))
\* Delay meets Play
DelayPlay(outer, l, m) ==
    IF ~m.none
    THEN Step("none",
              Outer(m.iv[1], Leaf("Delay", m.iv[2] - m.iv[1], outer.inst.ch, {}), m.iv), l)
    ELSE Step("none", OuterNone, l)
\* Delay meets Delay: int_new[1] is a TypeError when expand_slot returned None
DelayDelay(outer, l, inner, e) ==
    IF e.none THEN Step("TypeError", outer, l)
    ELSE Step("none",
              [outer EXCEPT !.inst = Leaf("Delay", e.iv[2] - e.iv[1], outer.inst.ch, {})],
              RemoveFirst(l, inner))

\* One body of `for (t_inner, inst_inner) in sched_instructions` (lines
\* 474-532), int_inner being the slot of inner.
InnerStep(outer, l, inner, int_inner) ==
    IF outer.none THEN Step("TypeError", outer, l)
    ELSE IF ~_overlaps(outer.iv, int_inner) THEN Step("none", outer, l)
    ELSE IF outer.inst.dur # 0 /\ inner.c.dur # 0 THEN
        IF outer.inst.kind = "Play" /\ inner.c.kind = "Play"
        THEN PlayPlay(outer, l, inner, expand_slot(outer.iv, int_inner))
        ELSE IF outer.inst.kind = "Play" /\ inner.c.kind = "Delay"
        THEN PlayDelay(outer, l, inner, merge_slots_pulse_delay(outer.iv, int_inner))
        ELSE IF outer.inst.kind = "Delay" /\ inner.c.kind = "Play"
        THEN DelayPlay(outer, l, merge_slots_pulse_delay(outer.iv, int_inner))
        ELSE IF outer.inst.kind = "Delay"
        THEN DelayDelay(outer, l, inner, expand_slot(outer.iv, int_inner))
        ELSE Step("none", outer, l)
    ELSE IF outer.inst.dur = 0 /\ inner.c.dur # 0
         THEN Step("none", [outer EXCEPT !.t = inner.t], l)
    ELSE IF outer.inst.dur # 0 /\ inner.c.dur = 0
         THEN Step("none", outer, RemoveFirst(l, inner))
    ELSE Step("none", outer, l)

\* The for loop from iterator position i on (0-based; the list changes
\* under the iterator).
RECURSIVE InnerLoop(_, _, _), InnerLoopNext(_, _)
InnerLoop(outer, l, i) ==
    IF i >= Len(l) THEN Step("none", outer, l)
    ELSE InnerLoopNext(InnerStep(outer, l, l[i + 1],
                                 <<l[i + 1].t, l[i + 1].t + l[i + 1].c.dur>>), i)
InnerLoopNext(r, i) == IF r.err # "none" THEN r ELSE InnerLoop(r.outer, r.l, i + 1)

\* while(len(sched_instructions) != 0): [err, new_instructions]
RECURSIVE MergeLoop(_, _), MergeLoopNext(_, _)
MergeLoop(sched_instructions, new_instructions) ==
    IF sched_instructions = <<>>
    THEN [err |-> "none", new_instructions |-> new_instructions]
    ELSE MergeLoopNext(
            InnerLoop(Outer(sched_instructions[1].t, sched_instructions[1].c,
                            <<sched_instructions[1].t,
                              sched_instructions[1].t + sched_instructions[1].c.dur>>),
                      Tail(sched_instructions), 0),
            new_instructions)
MergeLoopNext(r, new_instructions) ==
    IF r.err # "none" THEN [err |-> r.err, new_instructions |-> new_instructions]
    ELSE MergeLoop(r.l, IF r.outer.none THEN new_instructions
                        ELSE Append(new_instructions, Child(r.outer.t, r.outer.inst)))

\* ---------------------------------------------------------- _mutable_insert
DpChannels == dp_channels_idx \cap Channels

\* An outcome of a call on the heap: the heap as the call leaves it, the
\* returned object (0 when it raised) and the error.
HeapRes(h, ret, err) == [h |-> h, ret |-> ret, err |-> err]
Failed(h, err) == HeapRes(h, 0, err)

\* The lower end of the time range (start_time, self.duration) as the range
\* filter compares it with integer start times: 0.5 <= t iff 1 <= t.
RangeLo(time) == IF time.int THEN time.v ELSE 1

\* The guard of the DP branch (lines 429-430).
DpBranch(h, o, c) ==
    /\ IsSched(c)
    /\ SetOf(CompChannels(h, c)) \ DpChannels # {}
    /\ SetOf(o.keys) \cap SetOf(CompChannels(h, c)) \cap DpChannels # {}

\* channels_dp_common holds one channel in this universe.
CommonDp(h, o, c) ==
    CHOOSE ch \in SetOf(o.keys) \cap SetOf(CompChannels(h, c)) \cap DpChannels : TRUE
DpRange(h, s, time, c) ==
    RangeFilter({CommonDp(h, h[s], c)}, RangeLo(time), h[s].duration)
DpOnly(h, s, c) == ChannelFilter({CommonDp(h, h[s], c)})

\* The DP branch, statement by statement; every stage takes the outcomes of
\* the stages before it.  The branch works on new objects and rebinds the
\* local name self, so the object it was called on is never written; the
\* new objects reach the heap only when the call returns them.
\* lines 557-561 on the rebound self (fin), which is returned
DpReturn(h, e2, fin) ==
    IF fin.err # "none" THEN Failed(h, fin.err)
    ELSE HeapRes(h \o << fin.o, e2.o >>, Len(h) + 1, "none")
\* lines 546-548: self.insert(t, inst, inplace=True) for the merged list (ins)
DpAddSchedule(h, time, e2, ins) ==
    IF ins.err # "none" THEN Failed(h, ins.err)
    ELSE DpReturn(h, e2,
                  InsertTail(h \o << ins.o, e2.o >>, ins.o, time, SchedRef(Len(h) + 2)))
\* lines 541-543: self = self.exclude(...) (e1), schedule = schedule.exclude(...) (e2)
DpExcluded(h, time, new_instructions, e1, e2) ==
    IF e1.err # "none" THEN Failed(h, e1.err)
    ELSE IF e2.err # "none" THEN Failed(h, e2.err)
    ELSE DpAddSchedule(h, time, e2, InsertAll(h, e1.o, new_instructions))
\* line 537: the merge loop has ended (m)
DpMerged(h, s, time, c, m) ==
    IF m.err # "none" THEN Failed(h, m.err)
    ELSE DpExcluded(h, time, SortByKey(m.new_instructions),
                    filter_instructions(h, SchedRef(s), DpRange(h, s, time, c), TRUE),
                    filter_instructions(h, c, DpOnly(h, s, c), TRUE))
\* lines 465-470: the shift of the filtered schedule has ended (sh)
DpShifted(h, s, time, c, f1, f2, sh) ==
    IF sh.err # "none" THEN Failed(h, sh.err)
    ELSE DpMerged(h, s, time, c,
                  MergeLoop(SortByKey(Instructions(Append(h, f1.o), SchedRef(Len(h) + 1))
                                      \o Instructions(h \o << f2.o, sh.o >>,
                                                      SchedRef(Len(h) + 2))),
                            <<>>))
\* lines 464-465: self.filter(...) (f1) and schedule.filter(...) (f2), then
\* .shift(start_time, inplace=False)
DpFiltered(h, s, time, c, f1, f2) ==
    IF f1.err # "none" THEN Failed(h, f1.err)
    ELSE IF f2.err # "none" THEN Failed(h, f2.err)
    ELSE DpShifted(h, s, time, c, f1, f2,
                   InsertTail(Append(h, f2.o), initialize_from(f2.o), time,
                              SchedRef(Len(h) + 1)))
DpInsert(h, s, time, c) ==
    DpFiltered(h, s, time, c,
               filter_instructions(h, SchedRef(s), DpRange(h, s, time, c), FALSE),
               filter_instructions(h, c, DpOnly(h, s, c), FALSE))

\* A method that worked on object s itself and left outcome r: s is written
\* also when the method raised, and s is what it returns.
OnSelf(h, s, r) ==
    HeapRes([h EXCEPT ![s] = r.o], IF r.err = "none" THEN s ELSE 0, r.err)

\* Schedule._mutable_insert(start_time, schedule) on object s
_mutable_insert(h, s, time, c) ==
    IF DpBranch(h, h[s], c) THEN DpInsert(h, s, time, c)
    ELSE OnSelf(h, s, InsertTail(h, h[s], time, c))

\* An insert that works on the receiver although a copy was asked for.
InsertOnReceiver(h, s, time, c) == OnSelf(h, s, InsertTail(h, h[s], time, c))

\* What a method that built the new object n hands back: n alone joins the
\* heap h; whatever else the calls on n created is unreferenced.
NewObject(h, n, r) ==
    IF r.err # "none" THEN Failed(h, r.err) ELSE HeapRes(Append(h, r.h[n]), n, "none")

\* Schedule._immutable_insert: the new schedule is built by two
\* _mutable_insert calls (a, then b) whose return values are dropped.
ImmutableInsertSecond(h, n, time, c, a) ==
    IF a.err # "none" THEN Failed(h, a.err)
    ELSE NewObject(h, n, _mutable_insert(a.h, n, time, c))
_immutable_insert(h, s, time, c) ==
    ImmutableInsertSecond(h, Len(h) + 1, time, c,
        _mutable_insert(Append(h, initialize_from(h[s])), Len(h) + 1, IntTime(0),
                        SchedRef(s)))

\* Schedule.insert
insert(h, s, time, c, inplace) ==
    IF inplace THEN _mutable_insert(h, s, time, c) ELSE _immutable_insert(h, s, time, c)

\* Schedule.ch_stop_time(*channels) of object o
ch_stop_time(o, chans) ==
    LET present == { ch \in chans : InSeq(o.keys, ch) }
    IN  IF present = {} THEN 0
        ELSE CHOOSE m \in { o.iv[ch][Len(o.iv[ch])][2] : ch \in present } :
                 \A ch \in present : o.iv[ch][Len(o.iv[ch])][2] <= m

\* The channels Schedule.append takes the stop time over (lines 603-606).
AppendChannels(self_channels, sc) ==
    IF sc \ DpChannels = {} \/ sc \cap DpChannels = {}
    THEN self_channels \cap sc
    ELSE self_channels \cap (sc \ DpChannels)

\* The insertion time Schedule.append computes (line 608).
AppendTime(h, s, c) ==
    ch_stop_time(h[s], AppendChannels(SetOf(h[s].keys), SetOf(CompChannels(h, c))))

\* Schedule.append
append(h, s, c, inplace) == insert(h, s, IntTime(AppendTime(h, s, c)), c, inplace)

\* A faulty _mutable_shift: the fields are assigned before the shifted map is
\* checked.  C9 does not survive it.
ShiftBeforeCheck(o, time, timeslots) ==
    Res([o EXCEPT !.duration = @ + time.v,
                  !.iv = timeslots,
                  !.children = [i \in 1..Len(@) |-> Child(@[i].t + time.v, @[i].c)]],
        IF _check_nonnegative_timeslot(o.keys, timeslots) THEN "Timing" ELSE "none")

\* Schedule._mutable_shift(time) on object o, timeslots being the shifted map
MutableShiftEnd(o, time, timeslots) ==
    IF _check_nonnegative_timeslot(o.keys, timeslots) THEN Res(o, "Timing")
    ELSE Res([o EXCEPT !.duration = @ + time.v,
                       !.iv = timeslots,
                       !.children = [i \in 1..Len(@) |-> Child(@[i].t + time.v, @[i].c)]],
             "none")
_mutable_shift(o, time) ==
    IF ~time.int THEN Res(o, "Timing")
    ELSE MutableShiftEnd(o, time, [ch \in Channels |-> ShiftList(o.iv[ch], time.v)])

\* A faulty shift: the in-place shift moves the child Schedules as well.
ShiftChildrenToo(h, s, time, inplace) ==
    IF inplace
    THEN HeapRes([i \in 1..Len(h) |->
                     IF i = s \/ \E k \in 1..Len(h[s].children) : h[s].children[k].c = SchedRef(i)
                     THEN _mutable_shift(h[i], time).o ELSE h[i]],
                 IF _mutable_shift(h[s], time).err = "none" THEN s ELSE 0,
                 _mutable_shift(h[s], time).err)
    ELSE NewObject(h, Len(h) + 1,
                   _mutable_insert(Append(h, initialize_from(h[s])), Len(h) + 1, time,
                                   SchedRef(s)))

\* Schedule.shift; _immutable_shift inserts self into a new Schedule.
shift(h, s, time, inplace) ==
    IF inplace THEN OnSelf(h, s, _mutable_shift(h[s], time))
    ELSE NewObject(h, Len(h) + 1,
                   _mutable_insert(Append(h, initialize_from(h[s])), Len(h) + 1, time,
                                   SchedRef(s)))

\* ------------------------------------------------------------------ replace
\* The loop of Schedule.replace over self.children (lines 859-865).
NewChildren(h, children, old, new) ==
    [i \in 1..Len(children) |->
        IF ComponentEq(h, children[i].c, old) THEN Child(children[i].t, new)
        ELSE children[i]]
NewParameters(h, children) ==
    UNION { CompParams(h, children[i].c) : i \in 1..Len(children) }

\* Schedule._renew_timeslots: the loop over self.instructions after
\* _timeslots.clear(); _duration is not reset.
RECURSIVE RenewLoop(_, _, _), RenewLoopNext(_, _, _)
RenewLoop(h, o, pairs) ==
    IF pairs = <<>> THEN Res(o, "none")
    ELSE RenewLoopNext(h, _add_timeslots(h, o, IntTime(pairs[1].t), pairs[1].c), pairs)
RenewLoopNext(h, r, pairs) ==
    IF r.err # "none" THEN r ELSE RenewLoop(h, r.o, Tail(pairs))
_renew_timeslots(h, o) ==
    RenewLoop(h, [o EXCEPT !.keys = <<>>, !.iv = EmptyIv],
              SortByKey(FlattenChildren(h, o.children, 0)))

\* `for ... : new._mutable_insert(time, component)` on the new object n,
\* from position k on; the value each call returns is dropped.
RECURSIVE InsertEach(_, _, _, _), InsertEachNext(_, _, _, _)
InsertEach(h, n, pairs, k) ==
    IF k > Len(pairs) THEN HeapRes(h, n, "none")
    ELSE InsertEachNext(n, pairs, k,
                        _mutable_insert(h, n, IntTime(pairs[k].t), pairs[k].c))
InsertEachNext(n, pairs, k, r) ==
    IF r.err # "none" THEN r ELSE InsertEach(r.h, n, pairs, k + 1)

\* except PulseError: raise PulseError("... results in overlapping
\* instructions."); other exceptions pass through.
ReplaceRaise(r) ==
    IF r.err \in {"Overlap", "Timing"} THEN [r EXCEPT !.err = "Overlap"] ELSE r

\* A faulty replace: the in-place variant adds to the parameters it has.
ReplaceKeepsParameters(h, s, inplace, new_children) ==
    IF inplace
    THEN OnSelf(h, s,
                _renew_timeslots(h, [h[s] EXCEPT !.children = new_children,
                                                 !.params = @ \cup NewParameters(h, new_children)]))
    ELSE NewObject(h, Len(h) + 1,
                   ReplaceRaise(InsertEach(Append(h, initialize_from(h[s])), Len(h) + 1,
                                           new_children, 1)))
\* Schedule.replace(old, new, inplace)
ReplaceWith(h, s, inplace, new_children) ==
    IF inplace
    THEN OnSelf(h, s,
                _renew_timeslots(h, [h[s] EXCEPT !.children = new_children,
                                                 !.params = NewParameters(h, new_children)]))
    ELSE NewObject(h, Len(h) + 1,
                   ReplaceRaise(InsertEach(Append(h, initialize_from(h[s])), Len(h) + 1,
                                           new_children, 1)))
replace(h, s, old, new, inplace) ==
    ReplaceWith(h, s, inplace, NewChildren(h, h[s].children, old, new))

\* Schedule.__init__(*schedules, metadata=...) with the auto-generated name:
\* every component is inserted at time 0; an exception leaves no object
\* behind.
Schedule(h, name, metadata, schedules) ==
    NewObject(h, Len(h) + 1,
              InsertEach(Append(h, NewSchedule(name, metadata)), Len(h) + 1,
                         [i \in 1..Len(schedules) |-> Child(0, schedules[i])], 1))

\* -------------------------------------------------------------- the program
VARIABLES
    heap,               \* the Schedule objects created so far
    last,               \* the last public call, its arguments and its outcome
    nops,               \* number of public calls made
    instances_counter,  \* the next value of Schedule.instances_counter
    blocks,             \* the ScheduleBlock objects created so far
    block_counter       \* the next value of ScheduleBlock.instances_counter

vars == << heap, last, nops, instances_counter, blocks, block_counter >>

\* The metadata a constructor call passes: None or a dict with one key.
MetadataArgs == { {}, {"k"} }

NoComp == Leaf("None", 0, "-", {})
NoCall ==
    [cls |-> "none", op |-> "none", given |-> FALSE, inplace |-> FALSE, self |-> 0,
     comp |-> NoComp, comp2 |-> NoComp, time |-> IntTime(0), ret |-> 0, err |-> "none",
     pre |-> EmptySched, filters |-> NoFilters, time2 |-> IntTime(0), ret2 |-> 0,
     err2 |-> "none", eq |-> FALSE, intervals |-> <<>>, interval |-> <<0, 0>>,
     list |-> <<>>, msg |-> NoMessage, results |-> <<>>, qobj |-> <<>>]

Ids == 1..Len(heap)
\* The components a call can be given: an instruction or an existing Schedule.
Comps == Leaves \cup { SchedRef(i) : i \in Ids }

\* Object b is object a or sits in a's tree.
RECURSIVE Reaches(_, _, _)
Reaches(h, a, b) ==
    \/ a = b
    \/ \E i \in 1..Len(h[a].children) :
          IsSched(h[a].children[i].c) /\ Reaches(h, h[a].children[i].c.id, b)

\* An in-place call is never given a Schedule that holds the target in its
\* tree (the tree stays a tree); a copying call builds a new root.
Composable(s, c, inplace) == (inplace /\ IsSched(c)) => ~Reaches(heap, c.id, s)

Init ==
    /\ heap = <<>> /\ last = NoCall /\ nops = 0 /\ instances_counter = 0
    /\ blocks = <<>> /\ block_counter = 0

\* The message of the PulseError an insert outside the DP branch ends with
\* when _add_timeslots found an overlap; the copying insert raises it from a
\* new Schedule with the name and the timeslots of s.
InsertMessage(op, s, c, time, r) ==
    IF op = "insert" /\ r.err = "Overlap" /\ ~DpBranch(heap, heap[s], c)
    THEN OverlapMessage(heap, heap[s], time, c)
    ELSE NoMessage

\* A public call on the Schedule s (0: the constructor) with outcome r; the
\* in-place flag is passed explicitly.
Call(op, inplace, s, c, c2, time, r) ==
    /\ nops < MaxOps
    /\ Len(r.h) <= MaxObjs
    /\ heap' = r.h
    /\ last' = [NoCall EXCEPT !.cls = "Schedule", !.op = op, !.given = TRUE,
                              !.inplace = inplace, !.self = s, !.comp = c, !.comp2 = c2,
                              !.time = time, !.ret = r.ret, !.err = r.err,
                              !.pre = IF s = 0 THEN EmptySched ELSE heap[s],
                              !.msg = InsertMessage(op, s, c, time, r)]
    /\ nops' = nops + 1
    /\ instances_counter' = IF op = "init" THEN instances_counter + 1
                            ELSE instances_counter
    /\ UNCHANGED << blocks, block_counter >>

\* Schedule(), Schedule(c) and Schedule(c, c2)
Construct ==
    \/ \E m \in MetadataArgs :
          Call("init", FALSE, 0, NoComp, NoComp, IntTime(0),
               Schedule(heap, instances_counter, m, <<>>))
    \/ \E c \in Comps :
          Call("init", FALSE, 0, c, NoComp, IntTime(0),
               Schedule(heap, instances_counter, {}, << c >>))
    \/ \E c \in Comps, c2 \in Comps :
          Call("init", FALSE, 0, c, c2, IntTime(0),
               Schedule(heap, instances_counter, {}, << c, c2 >>))

Insert ==
    \E s \in Ids, time \in TimeArgs, c \in Comps, inplace \in BOOLEAN :
        /\ Composable(s, c, inplace)
        /\ Call("insert", inplace, s, c, NoComp, time, insert(heap, s, time, c, inplace))

AppendOp ==
    \E s \in Ids, c \in Comps, inplace \in BOOLEAN :
        /\ Composable(s, c, inplace)
        /\ Call("append", inplace, s, c, NoComp, IntTime(AppendTime(heap, s, c)),
                append(heap, s, c, inplace))

Shift ==
    \E s \in Ids, time \in TimeArgs, inplace \in BOOLEAN :
        Call("shift", inplace, s, NoComp, NoComp, time, shift(heap, s, time, inplace))

Replace ==
    \E s \in Ids, old \in Comps, new \in Leaves, inplace \in BOOLEAN :
        Call("replace", inplace, s, old, new, IntTime(0),
             replace(heap, s, old, new, inplace))

Next == Construct \/ Insert \/ AppendOp \/ Shift \/ Replace

Spec == Init /\ [][Next]_vars

\* ------------------------------------------------------------ filter | exclude
\* The Schedule a filter call built becomes a new object.
Built(h, r) ==
    IF r.err # "none" THEN Failed(h, r.err)
    ELSE HeapRes(Append(h, r.o), Len(h) + 1, "none")
\* Schedule.filter(...) and Schedule.exclude(...) with the filters f
filter(h, s, f) == Built(h, filter_instructions(h, SchedRef(s), f, FALSE))
exclude(h, s, f) == Built(h, filter_instructions(h, SchedRef(s), f, TRUE))
\* Schedule.__or__(other): self.insert(0, other)
__or__(h, s, c) == insert(h, s, IntTime(0), c, FALSE)

\* The expression s.filter(f) | s.exclude(f), evaluated left to right: on
\* success the last three objects of the heap are the filter result, the
\* exclude result and their union.
UnionOf(fid, re) ==
    IF re.err # "none" THEN re ELSE __or__(re.h, fid, SchedRef(re.ret))
ExcludeAfterFilter(s, f, rf) ==
    IF rf.err # "none" THEN rf ELSE UnionOf(rf.ret, exclude(rf.h, s, f))
FilterOrExclude(h, s, f) == ExcludeAfterFilter(s, f, filter(h, s, f))

\* The arguments of filter / exclude: none, one channel, one time range, a
\* channel with a time range.
FilterArgs ==
    { NoFilters, ChannelFilter({"d0"}), ChannelFilter({"d1"}),
      RangeFilter(Channels, 0, 2), RangeFilter({"d1"}, 0, 2) }

\* A call of s.filter(f) | s.exclude(f) with outcome r.
FilterCall(s, f, r) ==
    /\ nops < MaxOps
    /\ Len(r.h) <= MaxLawObjs
    /\ heap' = r.h
    /\ last' = [NoCall EXCEPT !.cls = "Schedule", !.op = "filter|exclude", !.self = s,
                              !.ret = r.ret, !.err = r.err, !.pre = heap[s],
                              !.filters = f]
    /\ nops' = MaxOps
    /\ UNCHANGED << instances_counter, blocks, block_counter >>

\* s.filter(f) | s.exclude(f) on the Schedule s
FilterUnion ==
    \E s \in Ids, f \in FilterArgs : FilterCall(s, f, FilterOrExclude(heap, s, f))

\* ------------------------------------------------------------ shift, twice
\* s.shift(d1, inplace=...).shift(d2, inplace=...)
ShiftAgain(d2, inplace, r1) ==
    IF r1.err # "none" THEN r1 ELSE shift(r1.h, r1.ret, d2, inplace)
ShiftTwice(h, s, d1, d2, inplace) == ShiftAgain(d2, inplace, shift(h, s, d1, inplace))
\* shift(d1 + d2) on the Schedule as it was before the two shifts: the
\* copying shift is made on s itself, the in-place one on an equal copy of s.
ShiftOnce(h, o, s, d, inplace) ==
    IF inplace THEN shift(Append(h, o), Len(h) + 1, d, TRUE)
    ELSE shift(h, s, d, FALSE)

\* The two shifts (outcome two) and the single one (outcome once).
ShiftCall(s, d1, d2, inplace, two, once) ==
    /\ nops < MaxOps
    /\ Len(once.h) <= MaxLawObjs
    /\ heap' = once.h
    /\ last' = [NoCall EXCEPT !.cls = "Schedule", !.op = "shift;shift",
                              !.inplace = inplace, !.self = s, !.time = d1,
                              !.time2 = d2, !.ret = two.ret, !.err = two.err,
                              !.ret2 = once.ret, !.err2 = once.err, !.pre = heap[s]]
    /\ nops' = MaxOps
    /\ UNCHANGED << instances_counter, blocks, block_counter >>
ShiftOnceAfter(s, d1, d2, inplace, two) ==
    ShiftCall(s, d1, d2, inplace, two,
              ShiftOnce(two.h, heap[s], s, IntTime(d1.v + d2.v), inplace))
ShiftCompare ==
    \E s \in Ids, d1 \in TimeArgs, d2 \in TimeArgs, inplace \in BOOLEAN :
        /\ d1.int /\ d2.int
        /\ ShiftOnceAfter(s, d1, d2, inplace, ShiftTwice(heap, s, d1, d2, inplace))

\* ------------------------------------------------------- replace and back
\* s.replace(old, new, inplace=...).replace(new, old, inplace=...)
ReplaceAgain(old, new, inplace, r1) ==
    IF r1.err # "none" THEN r1 ELSE replace(r1.h, r1.ret, new, old, inplace)
ReplaceTwice(h, s, old, new, inplace) ==
    ReplaceAgain(old, new, inplace, replace(h, s, old, new, inplace))

\* The two replacements with outcome r, made on heap h whose object keep is
\* the Schedule as it was before them.
ReplaceCall(s, old, new, inplace, keep, r) ==
    /\ nops < MaxOps
    /\ Len(r.h) <= MaxLawObjs
    /\ heap' = r.h
    /\ last' = [NoCall EXCEPT !.cls = "Schedule", !.op = "replace;replace",
                              !.inplace = inplace, !.self = s, !.comp = old,
                              !.comp2 = new, !.ret = r.ret, !.err = r.err,
                              !.ret2 = keep, !.pre = heap[s]]
    /\ nops' = MaxOps
    /\ UNCHANGED << instances_counter, blocks, block_counter >>
\* The copying variant leaves s as it was; the in-place variant works on s
\* while an equal copy of s is kept to compare with.
ReplaceBack ==
    \E s \in Ids, old \in Comps, new \in Leaves, inplace \in BOOLEAN :
        /\ Composable(s, old, inplace)
        /\ IF inplace
           THEN ReplaceCall(s, old, new, TRUE, Len(heap) + 1,
                            ReplaceTwice(Append(heap, heap[s]), s, old, new, TRUE))
           ELSE ReplaceCall(s, old, new, FALSE, s,
                            ReplaceTwice(heap, s, old, new, FALSE))

\* The identities are tried on the Schedules that construction, insert and
\* append build; the comparison is the last step of a run.
LawNext == Construct \/ Insert \/ AppendOp \/ FilterUnion \/ ShiftCompare \/ ReplaceBack
LawSpec == Init /\ [][LawNext]_vars

\* ------------------------------------------------------------ ScheduleBlock
\* A ScheduleBlock object: its name (the number n of "block<n>"), metadata,
\* the parameters of its alignment context, its _blocks list and the
\* parameters its parameter manager holds.
NewBlock(name, metadata, alignment) ==
    [name |-> name, metadata |-> metadata, alignment |-> alignment, blocks |-> <<>>,
     params |-> alignment]
BlockRef(i) == [kind |-> "Block", dur |-> 0, ch |-> "-", par |-> {}, id |-> i]
IsBlock(c) == c.kind = "Block"
\* isinstance(block, (ScheduleBlock, Instruction))
IsBlockComponent(c) == c.kind \in {"Block", "Play", "Delay", "ShiftPhase"}
\* block.parameters of a component
BlockParams(h, c) == IF IsBlock(c) THEN h[c.id].params ELSE c.par

\* copy.deepcopy(self): st.h is the object table with the copies made so far,
\* st.memo the (original, copy) pairs; every ScheduleBlock reachable from b is
\* copied once.
Memo(st, b) == { m \in st.memo : m[1] = b }
CopyOf(st, b) == (CHOOSE m \in Memo(st, b) : TRUE)[2]
RECURSIVE CopyBlock(_, _), CopyBlocks(_, _, _, _), CopyBlocksNext(_, _, _, _, _)
CopyBlock(st, b) ==
    IF Memo(st, b) # {} THEN st
    ELSE CopyBlocks([h |-> Append(st.h, [st.h[b] EXCEPT !.blocks = <<>>]),
                     memo |-> st.memo \cup { <<b, Len(st.h) + 1>> }],
                    Len(st.h) + 1, st.h[b].blocks, 1)
CopyBlocks(st, n, children, k) ==
    IF k > Len(children) THEN st
    ELSE IF IsBlock(children[k])
         THEN CopyBlocksNext(CopyBlock(st, children[k].id), n, children, k, children[k].id)
         ELSE CopyBlocks([st EXCEPT !.h[n].blocks = Append(@, children[k])],
                         n, children, k + 1)
CopyBlocksNext(st, n, children, k, b) ==
    CopyBlocks([st EXCEPT !.h[n].blocks = Append(@, BlockRef(CopyOf(st, b)))],
               n, children, k + 1)
deepcopy(h, b) == CopyBlock([h |-> h, memo |-> {}], b).h

\* self._blocks.append(block); update_parameter_table(block); return self
BlockAppendInPlace(h, s, c) ==
    HeapRes([h EXCEPT ![s].blocks = Append(@, c),
                      ![s].params = @ \cup BlockParams(h, c)], s, "none")
\* ScheduleBlock.append(block, inplace)
BlockAppend(h, s, c, inplace) ==
    IF ~IsBlockComponent(c) THEN Failed(h, "Type")
    ELSE IF ~inplace THEN BlockAppendInPlace(deepcopy(h, s), Len(h) + 1, c)
    ELSE BlockAppendInPlace(h, s, c)
\* The default of append's inplace argument.
BlockAppendDefault == TRUE
\* ScheduleBlock.__add__(other): self.append(other)
BlockAdd(h, s, c) == BlockAppend(h, s, c, BlockAppendDefault)

\* A filter that answers with a new empty block and raises nothing.
BlockFilterEmpty(h, s, f) ==
    HeapRes(Append(h, NewBlock(h[s].name, h[s].metadata, h[s].alignment)), Len(h) + 1, "none")
\* ScheduleBlock.filter(...) and ScheduleBlock.exclude(...) with the filters
\* f: the PulseError "... is not supported ..." and nothing else.
BlockFilter(h, s, f) == Failed(h, "Unsupported")
BlockExclude(h, s, f) == Failed(h, "Unsupported")

\* block.channels of a component and ScheduleBlock.channels.
RECURSIVE ChannelsOf(_, _), BlockChannels(_, _)
ChannelsOf(h, c) == IF IsBlock(c) THEN BlockChannels(h, c.id) ELSE { c.ch }
BlockChannels(h, b) == UNION { ChannelsOf(h, h[b].blocks[k]) : k \in 1..Len(h[b].blocks) }
\* alignment_context.is_sequential: the alignments that take a parameter are
\* sequential, AlignLeft is not.
IsSequential(alignment) == alignment # {}
\* block_to_dag(block) has an edge from element i to element j: a sequential
\* alignment chains the elements, otherwise an element follows the latest
\* earlier element on each of its channels.
DagEdge(h, b, i, j) ==
    /\ i < j
    /\ IF IsSequential(h[b].alignment) THEN j = i + 1
       ELSE \E ch \in ChannelsOf(h, h[b].blocks[j]) :
               /\ ch \in ChannelsOf(h, h[b].blocks[i])
               /\ \A k \in (i + 1)..(j - 1) : ch \notin ChannelsOf(h, h[b].blocks[k])
\* x == y for two block components, and ScheduleBlock.__eq__: the alignment
\* contexts, the channel sets and the lengths agree and the two graphs are
\* isomorphic with equal nodes.
RECURSIVE CompEq(_, _, _), BlockEq(_, _, _)
CompEq(h, x, y) ==
    IF IsBlock(x) /\ IsBlock(y) THEN BlockEq(h, x.id, y.id)
    ELSE IF IsBlock(x) \/ IsBlock(y) THEN FALSE
    ELSE x = y
BlockEq(h, a, b) ==
    /\ h[a].alignment = h[b].alignment
    /\ BlockChannels(h, a) = BlockChannels(h, b)
    /\ Len(h[a].blocks) = Len(h[b].blocks)
    /\ \E p \in Permutations(1..Len(h[a].blocks)) :
          /\ \A i \in 1..Len(h[a].blocks) : CompEq(h, h[a].blocks[i], h[b].blocks[p[i]])
          /\ \A i, j \in 1..Len(h[a].blocks) :
                DagEdge(h, a, i, j) <=> DagEdge(h, b, p[i], p[j])

\* ScheduleBlock.replace(old, new, inplace). ReplaceLoop is the loop over
\* self.blocks at element k, with new_blocks nb and the parameters np of
\* new_parameters; after the loop the two are assigned to self or to a copy
\* of self.
RECURSIVE ReplaceLoop(_, _, _, _, _, _, _, _), ReplaceNested(_, _, _, _, _, _, _, _, _),
          BlockReplace(_, _, _, _, _)
ReplaceLoop(h, s, old, new, inplace, k, nb, np) ==
    IF k > Len(h[s].blocks)
    THEN IF inplace
         THEN HeapRes([h EXCEPT ![s].blocks = nb, ![s].params = np], s, "none")
         ELSE HeapRes(Append(h, [h[s] EXCEPT !.blocks = nb, !.params = np]),
                      Len(h) + 1, "none")
    ELSE IF CompEq(h, h[s].blocks[k], old)
    THEN ReplaceLoop(h, s, old, new, inplace, k + 1, Append(nb, new),
                     np \cup BlockParams(h, new))
    ELSE IF IsBlock(h[s].blocks[k])
    THEN ReplaceNested(BlockReplace(h, h[s].blocks[k].id, old, new, inplace),
                       s, old, new, inplace, k, nb, np, h[s].blocks[k].id)
    ELSE ReplaceLoop(h, s, old, new, inplace, k + 1, Append(nb, h[s].blocks[k]),
                     np \cup h[s].blocks[k].par)
\* new_blocks.append(block.replace(old, new, inplace)) with the outcome r of
\* the nested call, then update_parameter_table(block) with the block b the
\* loop holds.
ReplaceNested(r, s, old, new, inplace, k, nb, np, b) ==
    ReplaceLoop(r.h, s, old, new, inplace, k + 1, Append(nb, BlockRef(r.ret)),
                np \cup r.h[b].params)
\* A replace that takes the matched elements out and puts new at the end.
BlockReplaceAtEnd(h, s, old, new, inplace) ==
    IF inplace
    THEN HeapRes([h EXCEPT ![s].blocks =
                     Append(SelectSeq(@, LAMBDA c : ~CompEq(h, c, old)), new)], s, "none")
    ELSE HeapRes(Append(h, [h[s] EXCEPT !.blocks =
                     Append(SelectSeq(@, LAMBDA c : ~CompEq(h, c, old)), new)]),
                 Len(h) + 1, "none")
BlockReplace(h, s, old, new, inplace) == ReplaceLoop(h, s, old, new, inplace, 1, <<>>, {})
\* The default of replace's inplace argument.
BlockReplaceDefault == TRUE

\* A duration that is a Parameter, not an int, and a delay with it.
DurParam == -1
UnassignedDelay == Leaf("Delay", DurParam, "d0", {"dur"})
\* The instructions a block is given.
BlockLeaves == Leaves \cup { UnassignedDelay }

\* An is_schedulable that does not look into nested blocks.
IsSchedulableShallow(h, b) ==
    /\ h[b].alignment = {}
    /\ \A k \in 1..Len(h[b].blocks) :
          IsBlock(h[b].blocks[k]) \/ h[b].blocks[k].dur # DurParam
\* ScheduleBlock.is_schedulable(): no context parameter of the alignment
\* context is a ParameterExpression, every nested block is schedulable and
\* every other element has an int duration.
RECURSIVE is_schedulable(_, _)
is_schedulable(h, b) ==
    /\ h[b].alignment = {}
    /\ \A k \in 1..Len(h[b].blocks) :
          IF IsBlock(h[b].blocks[k]) THEN is_schedulable(h, h[b].blocks[k].id)
          ELSE h[b].blocks[k].dur # DurParam

\* The alignment contexts a block is created with: AlignLeft() or one with a
\* free parameter.
AlignmentArgs == { {}, {"t"} }
BlockIds == 1..Len(blocks)
\* What a block call can be given: an instruction, an existing block, None.
BlockComps == BlockLeaves \cup { BlockRef(i) : i \in BlockIds } \cup { NoComp }
\* Block b is block a or sits in a's tree.
RECURSIVE BlockReaches(_, _, _)
BlockReaches(h, a, b) ==
    \/ a = b
    \/ \E i \in 1..Len(h[a].blocks) :
          IsBlock(h[a].blocks[i]) /\ BlockReaches(h, h[a].blocks[i].id, b)
\* An in-place call is never given a block that holds the target in its tree.
BlockComposable(s, c, inplace) == (inplace /\ IsBlock(c)) => ~BlockReaches(blocks, c.id, s)

\* A public call on the ScheduleBlock s (0: the constructor) with outcome r;
\* given tells whether the in-place flag was passed.
BlockCall(op, given, inplace, s, c, r) ==
    /\ nops < MaxBlockOps
    /\ Len(r.h) <= MaxBlocks
    /\ blocks' = r.h
    /\ last' = [NoCall EXCEPT !.cls = "ScheduleBlock", !.op = op, !.given = given,
                              !.inplace = inplace, !.self = s, !.comp = c, !.ret = r.ret,
                              !.err = r.err,
                              !.pre = IF s = 0 THEN EmptySched ELSE blocks[s]]
    /\ nops' = nops + 1
    /\ block_counter' = IF op = "init" THEN block_counter + 1 ELSE block_counter
    /\ UNCHANGED << heap, instances_counter >>

\* ScheduleBlock(alignment_context=...)
BlockConstruct ==
    \E a \in AlignmentArgs :
        BlockCall("init", FALSE, FALSE, 0, NoComp,
                  HeapRes(Append(blocks, NewBlock(block_counter, {}, a)),
                          Len(blocks) + 1, "none"))
\* block.append(c, inplace=...) and block.append(c)
BlockAppendOp ==
    \E s \in BlockIds, c \in BlockComps :
        \/ \E inplace \in BOOLEAN :
              /\ BlockComposable(s, c, inplace)
              /\ BlockCall("append", TRUE, inplace, s, c, BlockAppend(blocks, s, c, inplace))
        \/ /\ BlockComposable(s, c, BlockAppendDefault)
           /\ BlockCall("append", FALSE, BlockAppendDefault, s, c,
                        BlockAppend(blocks, s, c, BlockAppendDefault))
\* block + c
BlockAddOp ==
    \E s \in BlockIds, c \in BlockComps :
        /\ BlockComposable(s, c, BlockAppendDefault)
        /\ BlockCall("__add__", FALSE, BlockAppendDefault, s, c, BlockAdd(blocks, s, c))

\* A call of filter or exclude with the filters f and outcome r; the run
\* ends with it.
BlockFilterCall(op, s, f, r) ==
    /\ nops < MaxBlockOps
    /\ Len(r.h) <= MaxBlocks
    /\ blocks' = r.h
    /\ last' = [NoCall EXCEPT !.cls = "ScheduleBlock", !.op = op, !.self = s,
                              !.ret = r.ret, !.err = r.err, !.pre = blocks[s],
                              !.filters = f]
    /\ nops' = MaxBlockOps
    /\ UNCHANGED << heap, instances_counter, block_counter >>
\* block.filter(...) and block.exclude(...)
BlockFilterOp ==
    \E s \in BlockIds, f \in FilterArgs :
        \/ BlockFilterCall("filter", s, f, BlockFilter(blocks, s, f))
        \/ BlockFilterCall("exclude", s, f, BlockExclude(blocks, s, f))

\* block.is_schedulable(); the run ends with the answer.
IsSchedulableOp ==
    \E s \in BlockIds :
        /\ nops < MaxBlockOps
        /\ last' = [NoCall EXCEPT !.cls = "ScheduleBlock", !.op = "is_schedulable",
                                  !.self = s, !.pre = blocks[s],
                                  !.eq = is_schedulable(blocks, s)]
        /\ nops' = MaxBlockOps
        /\ UNCHANGED << heap, instances_counter, blocks, block_counter >>

BlockNext ==
    BlockConstruct \/ BlockAppendOp \/ BlockAddOp \/ BlockFilterOp \/ IsSchedulableOp
BlockSpec == Init /\ [][BlockNext]_vars

\* ------------------------------------------------- ScheduleBlock.replace
\* The blocks of b's tree, b among them.
RECURSIVE BlockTree(_, _)
BlockTree(h, b) ==
    {b} \cup UNION { IF IsBlock(h[b].blocks[k]) THEN BlockTree(h, h[b].blocks[k].id) ELSE {}
                     : k \in 1..Len(h[b].blocks) }
\* What replace is given as old and as new.
ReplaceComps ==
    { Leaf("Play", 2, "d0", {"a"}), Leaf("Delay", 3, "d1", {}), UnassignedDelay }
        \cup { BlockRef(i) : i \in BlockIds }
\* An in-place replace is never given a new block whose tree meets the tree
\* of the target.
ReplaceComposable(s, new, inplace) ==
    (inplace /\ IsBlock(new)) => BlockTree(blocks, new.id) \cap BlockTree(blocks, s) = {}
\* A call block.replace(old, new, ...) with outcome r.
BlockReplaceCall(given, inplace, s, old, new, r) ==
    /\ nops < MaxBlockOps
    /\ Len(r.h) <= MaxBlocks
    /\ blocks' = r.h
    /\ last' = [NoCall EXCEPT !.cls = "ScheduleBlock", !.op = "replace", !.given = given,
                              !.inplace = inplace, !.self = s, !.comp = old,
                              !.comp2 = new, !.ret = r.ret, !.err = r.err,
                              !.pre = blocks[s]]
    /\ nops' = nops + 1
    /\ UNCHANGED << heap, instances_counter, block_counter >>
\* block.replace(old, new, inplace=...) and block.replace(old, new)
BlockReplaceOp ==
    \E s \in BlockIds, old \in ReplaceComps, new \in ReplaceComps :
        \/ \E inplace \in BOOLEAN :
              /\ ReplaceComposable(s, new, inplace)
              /\ BlockReplaceCall(TRUE, inplace, s, old, new,
                                  BlockReplace(blocks, s, old, new, inplace))
        \/ /\ ReplaceComposable(s, new, BlockReplaceDefault)
           /\ BlockReplaceCall(FALSE, BlockReplaceDefault, s, old, new,
                               BlockReplace(blocks, s, old, new, BlockReplaceDefault))

ReplaceNext == BlockConstruct \/ BlockAppendOp \/ BlockReplaceOp
ReplaceSpec == Init /\ [][ReplaceNext]_vars

\* ----------------------------------------------------------- Schedule.__eq__
\* The instructions the compared Schedules are built from: delays of
\* duration 1, 2 and 3 on DriveChannel(0) and a delay on DriveChannel(1).
EqLeaves ==
    { Leaf("Delay", 1, "d0", {}), Leaf("Delay", 2, "d0", {}), Leaf("Delay", 3, "d0", {}),
      Leaf("Delay", 1, "d1", {}) }
EqComps == EqLeaves \cup { SchedRef(i) : i \in Ids }

\* A public call that builds one of the Schedules to compare, with outcome r.
EqBuild(op, inplace, s, c, time, r) ==
    /\ nops < MaxEqOps - 1
    /\ Len(r.h) <= MaxObjs
    /\ heap' = r.h
    /\ last' = [NoCall EXCEPT !.cls = "Schedule", !.op = op, !.given = TRUE,
                              !.inplace = inplace, !.self = s, !.comp = c, !.time = time,
                              !.ret = r.ret, !.err = r.err,
                              !.pre = IF s = 0 THEN EmptySched ELSE heap[s]]
    /\ nops' = nops + 1
    /\ instances_counter' = IF op = "init" THEN instances_counter + 1
                            ELSE instances_counter
    /\ UNCHANGED << blocks, block_counter >>
\* Schedule(metadata=...) and Schedule(c)
EqConstruct ==
    \/ \E m \in MetadataArgs :
          EqBuild("init", FALSE, 0, NoComp, IntTime(0),
                  Schedule(heap, instances_counter, m, <<>>))
    \/ \E c \in EqComps :
          EqBuild("init", FALSE, 0, c, IntTime(0),
                  Schedule(heap, instances_counter, {}, << c >>))
\* s.append(c, inplace=...)
EqAppend ==
    \E s \in Ids, c \in EqComps, inplace \in BOOLEAN :
        /\ Composable(s, c, inplace)
        /\ EqBuild("append", inplace, s, c, IntTime(AppendTime(heap, s, c)),
                   append(heap, s, c, inplace))
\* a == b for two Schedules; the comparison is the last step of a run.
Equal ==
    \E a \in Ids, b \in Ids :
        /\ nops < MaxEqOps
        /\ last' = [NoCall EXCEPT !.cls = "Schedule", !.op = "__eq__", !.self = a,
                                  !.comp = SchedRef(b), !.pre = heap[a],
                                  !.eq = ComponentEq(heap, SchedRef(a), SchedRef(b))]
        /\ nops' = MaxEqOps
        /\ UNCHANGED << heap, instances_counter, blocks, block_counter >>

EqNext == EqConstruct \/ EqAppend \/ Equal
EqSpec == Init /\ [][EqNext]_vars

\* ------------------------------------------------- one set, several orders
\* The largest offset of an inserted (offset, instruction) pair.
MaxOffset == 2
\* The instructions to insert: the ones above and a delay on DriveChannel(2).
OrderLeaves == Leaves \cup { Leaf("Delay", 1, "d2", {}) }
\* The pairs on channel ch, and NoPair for a channel that gets none.
NoPair == Child(0, NoComp)
PairsOn(ch) == { Child(t, c) : t \in -1..MaxOffset, c \in { l \in OrderLeaves : l.ch = ch } }
\* The orders of the set P: the sequences that hold each element once.
Orders(P) ==
    { q \in [1..Cardinality(P) -> P] : \A i, j \in 1..Cardinality(P) : i # j => q[i] # q[j] }

\* Schedule(*pairs) with (start_time, schedule) pairs.
ScheduleOfPairs(h, name, pairs) ==
    NewObject(h, Len(h) + 1,
              InsertEach(Append(h, NewSchedule(name, {})), Len(h) + 1, pairs, 1))

\* Schedule(*q1) with outcome r1 and Schedule(*q2) with outcome r2.
OrdersCall(r1, r2) ==
    /\ nops < MaxOps
    /\ heap' = r2.h
    /\ last' = [NoCall EXCEPT !.cls = "Schedule", !.op = "orders", !.ret = r1.ret,
                              !.err = r1.err, !.ret2 = r2.ret, !.err2 = r2.err]
    /\ nops' = MaxOps
    /\ instances_counter' = instances_counter + 2
    /\ UNCHANGED << blocks, block_counter >>
OrdersSecond(q2, r1) ==
    OrdersCall(r1, ScheduleOfPairs(r1.h, instances_counter + 1, q2))
\* One set of pairs on pairwise different channels, inserted in two orders.
InsertInOrders ==
    \E p0 \in PairsOn("d0") \cup {NoPair}, p1 \in PairsOn("d1") \cup {NoPair},
       p2 \in PairsOn("d2") \cup {NoPair} :
        \E q1 \in Orders({p0, p1, p2} \ {NoPair}), q2 \in Orders({p0, p1, p2} \ {NoPair}) :
            OrdersSecond(q2, ScheduleOfPairs(heap, instances_counter, q1))

\* A second instruction of no duration on DriveChannel(0), and the pairs two
\* Schedules are compared on: several may share a channel and a time.
SetFrequency == Leaf("SetFrequency", 0, "d0", {})
ComparedPairs ==
    { Child(t, c) : t \in 0..MaxOffset,
                    c \in { Leaf("Play", 2, "d0", {"a"}), Leaf("ShiftPhase", 0, "d0", {}),
                            SetFrequency, Leaf("Delay", 3, "d1", {}) } }
\* Schedule(*q1) == Schedule(*q2), r1 and r2 being the outcomes of the two
\* constructor calls.
CompareCall(r1, r2) ==
    /\ nops < MaxOps
    /\ heap' = r2.h
    /\ last' = [NoCall EXCEPT !.cls = "Schedule", !.op = "orders, compared",
                              !.ret = r1.ret, !.err = r1.err, !.ret2 = r2.ret,
                              !.err2 = r2.err,
                              !.eq = /\ r1.err = "none" /\ r2.err = "none"
                                     /\ ComponentEq(heap', SchedRef(r1.ret), SchedRef(r2.ret))]
    /\ nops' = MaxOps
    /\ instances_counter' = instances_counter + 2
    /\ UNCHANGED << blocks, block_counter >>
CompareSecond(q2, r1) ==
    CompareCall(r1, ScheduleOfPairs(r1.h, instances_counter + 1, q2))
\* Two or three pairs, inserted in two orders, and the two Schedules compared.
CompareOrders ==
    \E p1 \in ComparedPairs, p2 \in ComparedPairs, p3 \in ComparedPairs \cup {NoPair} :
        /\ nops < MaxOps
        /\ Cardinality({p1, p2, p3}) = 3
        /\ \E q2 \in Orders({p1, p2, p3} \ {NoPair}) :
              CompareSecond(q2, ScheduleOfPairs(heap, instances_counter,
                                                IF p3 = NoPair THEN << p1, p2 >>
                                                ELSE << p1, p2, p3 >>))

OrderNext == InsertInOrders \/ CompareOrders
OrderSpec == Init /\ [][OrderNext]_vars

\* ------------------------------------------- one child under two parents
\* The Schedules that are children of Schedule p, by reference.
ChildIds(h, p) ==
    { h[p].children[k].c.id : k \in { j \in 1..Len(h[p].children) : IsSched(h[p].children[j].c) } }
\* Schedule p holds a child that another Schedule holds as well.
SharesChild(h, p) ==
    \E x \in ChildIds(h, p) : \E p2 \in (1..Len(h)) \ {p} : x \in ChildIds(h, p2)

\* An in-place call with outcome r on a Schedule s that shares a child; it
\* comes after the calls that built the Schedules and ends the run.
SharedCall(op, s, c, c2, time, r) ==
    /\ nops <= MaxOps
    /\ Len(r.h) <= MaxLawObjs
    /\ heap' = r.h
    /\ last' = [NoCall EXCEPT !.cls = "Schedule", !.op = op, !.given = TRUE,
                              !.inplace = TRUE, !.self = s, !.comp = c, !.comp2 = c2,
                              !.time = time, !.ret = r.ret, !.err = r.err,
                              !.pre = heap[s]]
    /\ nops' = MaxOps + 1
    /\ UNCHANGED << instances_counter, blocks, block_counter >>
\* s.insert(time, c, inplace=True), s.shift(time, inplace=True) and
\* s.replace(old, new, inplace=True)
MutateShared ==
    \E s \in Ids :
        /\ SharesChild(heap, s)
        /\ \/ \E time \in TimeArgs, c \in Comps :
                 /\ Composable(s, c, TRUE)
                 /\ SharedCall("insert", s, c, NoComp, time, insert(heap, s, time, c, TRUE))
           \/ \E time \in TimeArgs :
                 SharedCall("shift", s, NoComp, NoComp, time, shift(heap, s, time, TRUE))
           \/ \E old \in Comps, new \in Leaves :
                 SharedCall("replace", s, old, new, IntTime(0),
                            replace(heap, s, old, new, TRUE))

ShareNext == Construct \/ MutateShared
ShareSpec == Init /\ [][ShareNext]_vars

\* ------------------------------------------------------ the interval helpers
\* The intervals the helpers are called with.
Intervals == { iv \in (0..MaxPoint) \X (0..MaxPoint) : iv[1] <= iv[2] }

\* What _add_timeslots makes of the list a channel holds when the interval n
\* is added to it: a channel that is no key yet gets the list of n alone.
AddOne(list, n) == IF list = <<>> THEN << n >> ELSE AddIntervals(list, << n >>, 0, 1).list

\* A call of _find_insertion_index(intervals, new_interval) with outcome r,
\* intervals being the list a channel holds (last.list) and list the one it
\* holds once new_interval has been added.
FindCall(intervals, new_interval, r, list) ==
    /\ Len(intervals) <= MaxLen
    /\ last' = [NoCall EXCEPT !.cls = "function", !.op = "_find_insertion_index",
                              !.intervals = intervals, !.interval = new_interval,
                              !.ret = r.index,
                              !.err = IF r.raised THEN "Overlap" ELSE "none",
                              !.list = list]
    /\ UNCHANGED << heap, nops, instances_counter, blocks, block_counter >>
FindInsertionIndex ==
    \E n \in Intervals :
        FindCall(last.list, n, _find_insertion_index(last.list, n), AddOne(last.list, n))

\* _overlaps(a, b) and _overlaps(b, a) for two intervals.
OverlapsBothWays ==
    \E a \in Intervals, b \in Intervals :
        /\ last' = [NoCall EXCEPT !.cls = "function", !.op = "_overlaps",
                                  !.intervals = << a, b >>,
                                  !.results = << _overlaps(a, b), _overlaps(b, a) >>]
        /\ UNCHANGED << heap, nops, instances_counter, blocks, block_counter >>

IndexNext == FindInsertionIndex \/ OverlapsBothWays
IndexSpec == Init /\ [][IndexNext]_vars

\* ---------------------------------------------------- _remove_timeslots
\* _interval_index(intervals, interval) once the binary search has returned
\* index: [raised, index]; raised stands for the PulseError "The interval
\* ... does not exist in intervals", index is 0-based.
IntervalIndexAt(intervals, interval, index) ==
    [raised |-> intervals[index + 1] # interval, index |-> index]
_interval_index(intervals, interval) ==
    IntervalIndexAt(intervals, interval, _locate_interval_index(intervals, interval, 0))
\* channel_timeslots.pop(index), index 0-based
PopAt(list, index) == SubSeq(list, 1, index) \o SubSeq(list, index + 2, Len(list))

\* The inner loop of _remove_timeslots over other_timeslots[channel], from
\* position idx on: [list, err].  An empty channel_timeslots and an interval
\* that is not found both end in a PulseError.
RECURSIVE RemoveIntervals(_, _, _, _), RemoveIntervalAt(_, _, _, _, _)
RemoveIntervals(list, others, time, idx) ==
    IF idx > Len(others) THEN [list |-> list, err |-> "none"]
    ELSE IF list = <<>> THEN [list |-> list, err |-> "Consistency"]
    ELSE RemoveIntervalAt(list, others, time, idx,
                          _interval_index(list, ShiftIv(others[idx], time)))
RemoveIntervalAt(list, others, time, idx, found) ==
    IF found.raised THEN [list |-> list, err |-> "Consistency"]
    ELSE RemoveIntervals(PopAt(list, found.index), others, time, idx + 1)

\* The loop of _remove_timeslots over schedule.channels, from position k on:
\* [keys, iv, err].  The list of a channel is changed in place, also when
\* the loop raises; a channel whose list became empty is popped.
RECURSIVE RemoveChannels(_, _, _, _, _, _), RemoveChannelDone(_, _, _, _, _, _, _)
RemoveChannels(keys, iv, chans, other, time, k) ==
    IF k > Len(chans) THEN [keys |-> keys, iv |-> iv, err |-> "none"]
    ELSE IF ~InSeq(keys, chans[k]) THEN [keys |-> keys, iv |-> iv, err |-> "Consistency"]
    ELSE RemoveChannelDone(keys, iv, chans, other, time, k,
                           RemoveIntervals(iv[chans[k]], other[chans[k]], time, 1))
\* A faulty end of the channel loop: a channel whose list became empty stays
\* a key.
RemoveChannelKeepsKey(keys, iv, chans, other, time, k, r) ==
    IF r.err # "none"
    THEN [keys |-> keys, iv |-> [iv EXCEPT ![chans[k]] = r.list], err |-> r.err]
    ELSE RemoveChannels(keys, [iv EXCEPT ![chans[k]] = r.list], chans, other, time, k + 1)
RemoveChannelDone(keys, iv, chans, other, time, k, r) ==
    IF r.err # "none"
    THEN [keys |-> keys, iv |-> [iv EXCEPT ![chans[k]] = r.list], err |-> r.err]
    ELSE IF r.list = <<>>
    THEN RemoveChannels(SelectSeq(keys, LAMBDA ch : ch # chans[k]),
                        [iv EXCEPT ![chans[k]] = <<>>], chans, other, time, k + 1)
    ELSE RemoveChannels(keys, [iv EXCEPT ![chans[k]] = r.list], chans, other, time, k + 1)

\* A faulty _remove_timeslots: whatever is found is removed and nothing is
\* raised for an interval that is not there.
RemoveWhatIsThere(h, o, time, c) ==
    IF ~time.int THEN Res(o, "Timing")
    ELSE Res([o EXCEPT !.iv = [ch \in Channels |->
                          SelectSeq(o.iv[ch], LAMBDA x :
                              ~InSeq(ShiftList(_get_timeslots(h, c)[ch], time.v), x))]],
             "none")
\* Schedule._remove_timeslots(time, schedule) on object o; r is what the loop
\* over the channels left.
RemoveTimeslotsEnd(o, r) == Res([o EXCEPT !.keys = r.keys, !.iv = r.iv], r.err)
_remove_timeslots(h, o, time, c) ==
    IF ~time.int THEN Res(o, "Timing")
    ELSE RemoveTimeslotsEnd(o, RemoveChannels(o.keys, o.iv, CompChannels(h, c),
                                              _get_timeslots(h, c), time.v, 1))

\* A direct call of a timeslot method on Schedule s with outcome r (the
\* object as the method leaves it and the error); the run ends with it.
TimeslotCall(op, s, c, time, r) ==
    /\ nops < MaxOps
    /\ heap' = [heap EXCEPT ![s] = r.o]
    /\ last' = [NoCall EXCEPT !.cls = "Schedule", !.op = op, !.given = TRUE,
                              !.inplace = TRUE, !.self = s, !.comp = c, !.time = time,
                              !.ret = IF r.err = "none" THEN s ELSE 0, !.err = r.err,
                              !.pre = heap[s]]
    /\ nops' = MaxOps
    /\ UNCHANGED << instances_counter, blocks, block_counter >>
\* s._remove_timeslots(time, c)
RemoveTimeslots ==
    \E s \in Ids, time \in TimeArgs, c \in Comps :
        /\ Composable(s, c, TRUE)
        /\ TimeslotCall("_remove_timeslots", s, c, time,
                        _remove_timeslots(heap, heap[s], time, c))
\* s._add_timeslots(time, c) and, when it returned, s._remove_timeslots(time, c)
RemoveAdded(s, c, time, a) ==
    /\ nops < MaxOps
    /\ a.err = "none"
    /\ TimeslotCall("_add_then_remove", s, c, time, _remove_timeslots(heap, a.o, time, c))
AddThenRemove ==
    \E s \in Ids, time \in TimeArgs, c \in Comps :
        /\ Composable(s, c, TRUE)
        /\ RemoveAdded(s, c, time, _add_timeslots(heap, heap[s], time, c))

RemoveNext == Construct \/ Insert \/ RemoveTimeslots \/ AddThenRemove
RemoveSpec == Init /\ [][RemoveNext]_vars

\* ------------------------------------------------- copying and in place
\* What a call left when it returned: the timeslot map and the flattened
\* (time, instruction) pairs of the Schedule it answered with.
Outcome(r) ==
    IF r.err # "none" THEN [iv |-> EmptyIv, flat |-> <<>>]
    ELSE [iv |-> r.h[r.ret].iv, flat |-> Instructions(r.h, SchedRef(r.ret))]
\* One call made twice on Schedule s as it is now, once copying (outcome rc)
\* and once in place (outcome ri); the run ends with the pair.
VariantCall(op, s, c, c2, time, rc, ri) ==
    /\ nops < MaxOps
    /\ last' = [NoCall EXCEPT !.cls = "Schedule", !.op = op, !.self = s, !.comp = c,
                              !.comp2 = c2, !.time = time, !.pre = heap[s],
                              !.err = rc.err, !.err2 = ri.err,
                              !.results = << Outcome(rc), Outcome(ri) >>]
    /\ nops' = MaxOps
    /\ UNCHANGED << heap, instances_counter, blocks, block_counter >>
\* s.insert(t, c), s.shift(t), s.replace(old, new) with inplace=False and
\* with inplace=True, for integer t.
Variants ==
    \E s \in Ids :
        \/ \E time \in TimeArgs, c \in Comps :
              /\ time.int /\ Composable(s, c, TRUE)
              /\ VariantCall("insert, both ways", s, c, NoComp, time,
                             insert(heap, s, time, c, FALSE), insert(heap, s, time, c, TRUE))
        \/ \E time \in TimeArgs :
              /\ time.int
              /\ VariantCall("shift, both ways", s, NoComp, NoComp, time,
                             shift(heap, s, time, FALSE), shift(heap, s, time, TRUE))
        \/ \E old \in Comps, new \in Leaves :
              VariantCall("replace, both ways", s, old, new, IntTime(0),
                          replace(heap, s, old, new, FALSE), replace(heap, s, old, new, TRUE))

VariantNext == Construct \/ Insert \/ Variants
VariantSpec == Init /\ [][VariantNext]_vars

\* ------------------------------------------------------------ the two counters
\* Schedules and ScheduleBlocks made and composed in one process.
NameNext == Construct \/ Insert \/ Shift \/ BlockConstruct \/ BlockAppendOp
NameSpec == Init /\ [][NameNext]_vars

\* ------------------------------------------------ assembler/disassemble.py
\* An instruction of an experiment.  attrs is the set of the optional
\* attributes the object has (qubits, memory, params); qubits and memory are
\* indices into the header's qubit_labels and clbit_labels, counted from 0.
QobjInstruction(name, attrs, qubits, memory, params, label, snapshot_type) ==
    [name |-> name, attrs |-> attrs, qubits |-> qubits, memory |-> memory,
     params |-> params, label |-> label, snapshot_type |-> snapshot_type]
QobjInstructions ==
    { QobjInstruction("measure", {"qubits", "memory"}, << 0 >>, << 1 >>, <<>>, "", ""),
      QobjInstruction("snapshot", {"params"}, <<>>, <<>>, <<>>, "s", "statevector"),
      QobjInstruction("initialize", {"qubits", "params"}, << 1 >>, <<>>, << 1, 0 >>, "", "") }

\* The header of an experiment: registers as <<name, size>>, labels as
\* <<register name, index>>.
ExperimentHeader ==
    [name |-> "circuit0", qreg_sizes |-> << << "q", 2 >> >>, creg_sizes |-> << << "c", 2 >> >>,
     qubit_labels |-> << << "q", 0 >>, << "q", 1 >> >>,
     clbit_labels |-> << << "c", 0 >>, << "c", 1 >> >>]
Experiments ==
    { [header |-> ExperimentHeader, instructions |-> i] :
        i \in UNION { [1..n -> QobjInstructions] : n \in 0..MaxInstructions } }
\* config and header of a Qobj as the dicts their to_dict() gives
QobjArgs ==
    { [config |-> [shots |-> 1024], header |-> [backend_name |-> "a"]],
      [config |-> [shots |-> 1], header |-> [backend_name |-> "b"]] }
Qobj(a, experiments) ==
    [config |-> a.config, header |-> a.header, experiments |-> experiments]

\* reg_dict[label[0]][label[1]] for the registers built from sizes: the bit
\* of a register, or a raised exception.
RegisterBit(sizes, label) ==
    IF \E i \in 1..Len(sizes) : sizes[i][1] = label[1] /\ label[2] < sizes[i][2]
    THEN [raised |-> FALSE, bit |-> [register |-> label[1], index |-> label[2]]]
    ELSE [raised |-> TRUE, bit |-> [register |-> "", index |-> 0]]

\* The loop "for qubit in i.qubits: ... qubits.append(...)" inside
\* try/except Exception: pass, from position k with acc gathered so far.  An
\* absent attribute, an index outside the labels or a label outside the
\* registers ends the loop and keeps what was appended.
RECURSIVE GatherBits(_, _, _, _, _, _)
GatherBits(present, indices, labels, sizes, k, acc) ==
    IF ~present \/ k > Len(indices) THEN acc
    ELSE IF indices[k] + 1 > Len(labels) THEN acc
    ELSE IF RegisterBit(sizes, labels[indices[k] + 1]).raised THEN acc
    ELSE GatherBits(present, indices, labels, sizes, k + 1,
                    Append(acc, RegisterBit(sizes, labels[indices[k] + 1]).bit))

\* The call of the circuit method named i.name, as the entry it appends to
\* the circuit: snapshot takes the label and keywords, initialize takes
\* (params, qubits), every other method takes (*params, *qubits, *clbits).
AppliedInstruction(i, qubits, clbits, params) ==
    IF i.name = "snapshot"
    THEN [method |-> i.name, form |-> "snapshot", params |-> params, qubits |-> qubits,
          clbits |-> <<>>, label |-> i.label, snapshot_type |-> i.snapshot_type]
    ELSE IF i.name = "initialize"
    THEN [method |-> i.name, form |-> "initialize", params |-> params, qubits |-> qubits,
          clbits |-> <<>>, label |-> "", snapshot_type |-> ""]
    ELSE [method |-> i.name, form |-> "positional", params |-> params, qubits |-> qubits,
          clbits |-> clbits, label |-> "", snapshot_type |-> ""]

\* One pass of "for i in x.instructions"
ApplyInstruction(x, i) ==
    AppliedInstruction(i,
        GatherBits("qubits" \in i.attrs, i.qubits, x.header.qubit_labels,
                   x.header.qreg_sizes, 1, <<>>),
        GatherBits("memory" \in i.attrs, i.memory, x.header.clbit_labels,
                   x.header.creg_sizes, 1, <<>>),
        IF "params" \in i.attrs THEN i.params ELSE <<>>)

\* "for i in x.instructions: ... instr_method(...)" from position k on a
\* circuit that holds data
RECURSIVE ApplyInstructions(_, _, _)
ApplyInstructions(x, k, data) ==
    IF k > Len(x.instructions) THEN data
    ELSE ApplyInstructions(x, k + 1, Append(data, ApplyInstruction(x, x.instructions[k])))

\* The QuantumCircuit built for experiment x
ExperimentCircuit(x) ==
    [name |-> x.header.name, qregs |-> x.header.qreg_sizes, cregs |-> x.header.creg_sizes,
     data |-> ApplyInstructions(x, 1, <<>>)]

\* "for x in qobj.experiments: ... circuits.append(circuit)" from position k
RECURSIVE CircuitsFrom(_, _, _)
CircuitsFrom(experiments, k, circuits) ==
    IF k > Len(experiments) THEN circuits
    ELSE CircuitsFrom(experiments, k + 1, Append(circuits, ExperimentCircuit(experiments[k])))

\* _experiments_to_circuits(qobj): none stands for the value None.
_experiments_to_circuits(qobj) ==
    IF qobj.experiments # <<>>
    THEN [none |-> FALSE, list |-> CircuitsFrom(qobj.experiments, 1, <<>>)]
    ELSE [none |-> TRUE, list |-> <<>>]

\* disassemble(qobj)
disassemble(qobj) == << _experiments_to_circuits(qobj), qobj.config, qobj.header >>

\* One call of disassemble in a run.
Disassemble ==
    /\ nops < MaxOps
    /\ \E a \in QobjArgs, n \in 0..MaxExperiments : \E e \in [1..n -> Experiments] :
        /\ last' = [NoCall EXCEPT !.cls = "function", !.op = "disassemble",
                                  !.qobj = Qobj(a, e),
                                  !.results = disassemble(Qobj(a, e))]
        /\ nops' = MaxOps
        /\ UNCHANGED << heap, instances_counter, blocks, block_counter >>

DisassembleNext == Disassemble
DisassembleSpec == Init /\ [][DisassembleNext]_vars


\* ------------------------------------------------------------- properties
\* Two intervals share a point of time (stop times are exclusive).
Meets(a, b) == a[1] < b[2] /\ b[1] < a[2]
SortedByStart(l) == \A i \in 1..Len(l), j \in 1..Len(l) : i < j => l[i][1] <= l[j][1]
NoTwoMeet(l) == \A i \in 1..Len(l), j \in 1..Len(l) : i < j => ~Meets(l[i], l[j])
\* Some stored interval of a timeslot map starts before time 0.
StartsBeforeZero(iv) == \E ch \in Channels : \E i \in 1..Len(iv[ch]) : iv[ch][i][1] < 0
\* The timeslot map other, put at offset t, collides with the map iv.
Collides(iv, other, t) ==
    \E ch \in Channels : \E i \in 1..Len(iv[ch]) : \E j \in 1..Len(other[ch]) :
        Meets(iv[ch][i], ShiftIv(other[ch][j], t))
\* The last call raised a PulseError.
PulseError == last.err \in {"Overlap", "Timing"}
\* The object the last call was made on is as it was before the call.
SelfUnchanged == heap[last.self] = last.pre

\* C1: in every Schedule, every channel's timeslot list is sorted by start
\* time and no two of its intervals overlap.  It holds in every reachable
\* state, hence after every sequence of successful operations.
C1_SortedNonOverlapping ==
    \A i \in Ids : \A ch \in Channels :
        SortedByStart(heap[i].iv[ch]) /\ NoTwoMeet(heap[i].iv[ch])
\* An in-place insert has put an interval in front of the intervals the
\* channel already held.
C1_Witness ==
    /\ last.op = "insert" /\ last.inplace /\ last.err = "none" /\ last.ret = last.self
    /\ \E ch \in Channels :
          /\ last.pre.iv[ch] # <<>>
          /\ Len(heap[last.self].iv[ch]) > Len(last.pre.iv[ch])
          /\ heap[last.self].iv[ch][1] # last.pre.iv[ch][1]

\* C2: an insert at an integer offset whose component collides with an
\* interval recorded in the Schedule raises PulseError.
C2_CollisionRaises ==
    ( /\ last.op = "insert" /\ last.time.int
      /\ Collides(last.pre.iv, _get_timeslots(heap, last.comp), last.time.v) )
    => PulseError

\* C3: when insert fails with Overlap, the Schedule it was called on is
\* unchanged (timeslot map, duration, children, parameters).
C3_OverlapLeavesUnchanged ==
    (last.op = "insert" /\ last.err = "Overlap") => SelfUnchanged

\* The intervals of the children on channel ch, each child's map shifted by
\* its recorded offset.
RECURSIVE ChildSlots(_, _, _)
ChildSlots(h, children, ch) ==
    IF children = <<>> THEN <<>>
    ELSE ShiftList(_get_timeslots(h, children[1].c)[ch], children[1].t)
         \o ChildSlots(h, Tail(children), ch)
Count(l, x) == Cardinality({ i \in 1..Len(l) : l[i] = x })
SameIntervals(a, b) ==
    Len(a) = Len(b) /\ \A i \in 1..Len(a) : Count(a, a[i]) = Count(b, a[i])

\* C4: every Schedule's timeslot map is exactly the union of its children's
\* timeslot maps, each shifted by the child's recorded offset.
C4_TimeslotsAreChildrenUnion ==
    \A i \in Ids : \A ch \in Channels :
        SameIntervals(heap[i].iv[ch], ChildSlots(heap, heap[i].children, ch))

\* C5: every Schedule's duration is the largest stop of the last interval
\* over its channels, 0 without intervals.
C5_DurationIsLastStop ==
    \A i \in Ids : heap[i].duration = ch_stop_time(heap[i], Channels)

\* C6: every stored interval starts at 0 or later, also after a call that
\* raised.
C6_NoNegativeStart == \A i \in Ids : ~StartsBeforeZero(heap[i].iv)

\* C7 (as stated): insert rejects every negative and every non-integer offset
\* with a PulseError.
C7_OffsetValidated ==
    (last.op = "insert" /\ (~last.time.int \/ last.time.v < 0)) => PulseError
\* C7 (amended): insert rejects every non-integer offset with a PulseError,
\* and a Schedule it returns holds no interval that starts before 0; the
\* sign of the offset itself is not checked.
C7_IntervalsValidated ==
    last.op = "insert" =>
        /\ ~last.time.int => PulseError
        /\ last.err = "none" => ~StartsBeforeZero(heap[last.ret].iv)
\* insert returned with a non-empty component recorded at a negative offset.
C7_Witness ==
    /\ last.op = "insert" /\ last.err = "none" /\ last.time.v < 0
    /\ CompChannels(heap, last.comp) # <<>>
    /\ \E k \in 1..Len(heap[last.ret].children) :
          heap[last.ret].children[k] = Child(last.time.v, last.comp)

\* C8: when an in-place insert is rejected with a Timing error, no mutation
\* has taken effect.
C8_TimingLeavesUnchanged ==
    (last.op = "insert" /\ last.inplace /\ last.err = "Timing") => SelfUnchanged

\* C9: an in-place shift raises PulseError when delta is not an integer or
\* some shifted interval would start before 0, and whenever it raises the
\* Schedule is exactly what it was before the call.
C9_ShiftRejectsAtomically ==
    (last.op = "shift" /\ last.inplace) =>
        /\ ( \/ ~last.time.int
             \/ StartsBeforeZero([ch \in Channels |-> ShiftList(last.pre.iv[ch], last.time.v)]) )
           => PulseError
        /\ last.err # "none" => SelfUnchanged
\* An in-place shift of a Schedule with children and intervals was rejected
\* because an interval would start before 0.
C9_Witness ==
    /\ last.op = "shift" /\ last.inplace /\ last.time.int /\ last.err = "Timing"
    /\ last.pre.children # <<>> /\ last.pre.keys # <<>>

\* C10: append inserts at the largest stop of self's last interval over the
\* channels self shares with the component, and at 0 when none is shared.
C10_AppendAtSharedStop ==
    last.op = "append" =>
        last.time.v = ch_stop_time(last.pre, SetOf(last.pre.keys)
                                             \cap SetOf(CompChannels(heap, last.comp)))

HoldsShifted(iv, other, t) ==
    \A ch \in Channels : \A j \in 1..Len(other[ch]) :
        InSeq(iv[ch], ShiftIv(other[ch][j], t))

\* C12: a successful in-place insert returns the object it was called on,
\* whose children list then ends with (offset, C) and whose timeslot map
\* holds C's intervals shifted by the offset.
C12_InsertInPlace ==
    (last.op = "insert" /\ last.inplace /\ last.err = "none") =>
        /\ last.ret = last.self
        /\ heap[last.self].children # <<>>
        /\ heap[last.self].children[Len(heap[last.self].children)]
               = Child(last.time.v, last.comp)
        /\ HoldsShifted(heap[last.self].iv, _get_timeslots(heap, last.comp), last.time.v)

\* The object the last call was made on, as it is now.
Receiver == IF last.cls = "ScheduleBlock" THEN blocks[last.self] ELSE heap[last.self]

\* C13: append and insert called without an in-place flag, also through the
\* operators + and |, return a new object and leave the receiver unchanged,
\* for Schedule and for ScheduleBlock.
C13_DefaultCopies ==
    ( /\ last.op \in {"append", "insert", "__add__", "__or__"}
      /\ ~last.given /\ last.err = "none" )
    => (Receiver = last.pre /\ last.ret # last.self)

\* The flattened (time, instruction) pairs of Schedule i, in order.
Flat(i) == Instructions(heap, SchedRef(i))
\* The results of the last s.filter(f) | s.exclude(f): filter, exclude, union.
FilterResult == last.ret - 2
ExcludeResult == last.ret - 1

\* C14: T.filter(P) and T.exclude(P) partition T's flattened (time, leaf)
\* pairs (every pair of T is in exactly one of the two, neither holds a pair
\* not in T), and T.filter(P) | T.exclude(P) == T.
C14_FilterExcludePartition ==
    last.op = "filter|exclude" =>
        /\ last.err = "none"
        /\ \A p \in SetOf(Flat(last.self)) \cup SetOf(Flat(FilterResult))
                   \cup SetOf(Flat(ExcludeResult)) :
              Count(Flat(last.self), p)
                  = Count(Flat(FilterResult), p) + Count(Flat(ExcludeResult), p)
        /\ SetOf(Flat(FilterResult)) \cap SetOf(Flat(ExcludeResult)) = {}
        /\ ComponentEq(heap, SchedRef(last.ret), SchedRef(last.self))

\* C15: when s.shift(d1).shift(d2) succeeds, its result has the timeslot map,
\* the flattened (time, leaf) sequence and the duration of s.shift(d1 + d2),
\* in place and copying.
C15_ShiftsAdd ==
    (last.op = "shift;shift" /\ last.err = "none") =>
        /\ last.err2 = "none"
        /\ heap[last.ret].iv = heap[last.ret2].iv
        /\ Flat(last.ret) = Flat(last.ret2)
        /\ heap[last.ret].duration = heap[last.ret2].duration

\* C16 (as stated): when T.replace(old, new).replace(new, old) succeeds, its
\* result is == T.
C16_ReplaceRoundTrip ==
    (last.op = "replace;replace" /\ last.err = "none") =>
        ComponentEq(heap, SchedRef(last.ret), SchedRef(last.ret2))

\* The Schedule objects as they were before the last call on a Schedule.
PreHeap == [heap EXCEPT ![last.self] = last.pre]
\* Some entry of the tree of Schedule i equals the component c.
RECURSIVE Inside(_, _, _)
Inside(h, i, c) ==
    \E k \in 1..Len(h[i].children) :
        \/ ComponentEq(h, h[i].children[k].c, c)
        \/ IsSched(h[i].children[k].c) /\ Inside(h, h[i].children[k].c.id, c)
\* The entry at position k of the children list replace(old, new) builds.
Substituted(k) ==
    IF ComponentEq(PreHeap, last.pre.children[k].c, last.comp)
    THEN Child(last.pre.children[k].t, last.comp2)
    ELSE last.pre.children[k]

\* C17: a successful replace(old, new) returns a Schedule whose children list
\* is the receiver's with exactly the entries equal to old substituted by
\* new at the same offset and position, and a child Schedule that holds an
\* occurrence of old stays in place.
C17_ReplaceTopLevelOnly ==
    (last.op = "replace" /\ last.err = "none") =>
        /\ Len(heap[last.ret].children) = Len(last.pre.children)
        /\ \A k \in 1..Len(last.pre.children) :
              /\ k <= Len(heap[last.ret].children)
              /\ heap[last.ret].children[k] = Substituted(k)
              /\ ( /\ IsSched(last.pre.children[k].c)
                   /\ Inside(PreHeap, last.pre.children[k].c.id, last.comp) )
                 => heap[last.ret].children[k] = last.pre.children[k]

\* C18: when an in-place replace fails because the replacement collides,
\* the Schedule's children, parameters, timeslot map and duration are what
\* they were before the call.
C18_ReplaceFailsAtomically ==
    (last.op = "replace" /\ last.inplace /\ PulseError) => SelfUnchanged

\* The interval of a flattened (time, instruction) pair.
Slot(p) == << p.t, p.t + p.c.dur >>
\* Two of the flattened pairs overlap on a channel.
TwoOverlap(pairs) ==
    \E i \in 1..Len(pairs), j \in 1..Len(pairs) :
        /\ i < j /\ pairs[i].c.ch = pairs[j].c.ch
        /\ (_overlaps(Slot(pairs[i]), Slot(pairs[j])) \/ _overlaps(Slot(pairs[j]), Slot(pairs[i])))
\* The flattened pairs of the children list replace(old, new) builds.
SubstitutedFlat ==
    FlattenChildren(PreHeap, [k \in 1..Len(last.pre.children) |-> Substituted(k)], 0)

\* C19: in place and copying, replace(old, new) raises PulseError when two
\* intervals of the children after substitution overlap on a channel, and
\* returns normally when none do.
C19_ReplaceRaisesIffCollision ==
    last.op = "replace" => (PulseError <=> TwoOverlap(SubstitutedFlat))

\* The number of paths of the tree below children that lead to the leaf
\* p.c with offsets summing to p.t, off being the sum so far.
RECURSIVE PathCount(_, _, _)
PathCount(children, off, p) ==
    IF children = <<>> THEN 0
    ELSE (IF IsSched(children[1].c)
          THEN PathCount(heap[children[1].c.id].children, off + children[1].t, p)
          ELSE IF Child(off + children[1].t, children[1].c) = p THEN 1 ELSE 0)
         + PathCount(Tail(children), off, p)
\* The (time, leaf) pairs some path of the tree below children leads to.
RECURSIVE PathPairs(_, _)
PathPairs(children, off) ==
    IF children = <<>> THEN {}
    ELSE (IF IsSched(children[1].c)
          THEN PathPairs(heap[children[1].c.id].children, off + children[1].t)
          ELSE { Child(off + children[1].t, children[1].c) })
         \cup PathPairs(Tail(children), off)
\* The pair x may stand before the pair y: earlier, or as early and shorter,
\* or as early and as long with a channel name that is not larger.
MayPrecede(x, y) ==
    \/ x.t < y.t
    \/ x.t = y.t /\ x.c.dur < y.c.dur
    \/ x.t = y.t /\ x.c.dur = y.c.dur /\ ChanRank(x.c.ch) <= ChanRank(y.c.ch)

\* The sequence flat holds exactly the leaves of the tree below children,
\* each with the sum of the offsets on its path, in sorted order.
LeavesOfTreeSorted(children, flat) ==
    /\ \A k \in 1..Len(flat) : ~IsSched(flat[k].c)
    /\ \A p \in SetOf(flat) \cup PathPairs(children, 0) :
          Count(flat, p) = PathCount(children, 0, p)
    /\ \A a \in 1..Len(flat), b \in 1..Len(flat) : a < b => MayPrecede(flat[a], flat[b])

\* C20: Schedule.instructions holds exactly the leaves of the tree, nested
\* Schedules expanded, each with the sum of the offsets on its path, sorted
\* by (time, duration, channel name).
C20_InstructionsFlatSorted ==
    \A i \in Ids : LeavesOfTreeSorted(heap[i].children, Flat(i))
\* A Schedule holds a nested Schedule at a non-zero offset, and its
\* instructions are not in the order the tree is walked in: two leaves start
\* together and the shorter one, met later, comes first.
C20_Witness ==
    \E i \in Ids :
        /\ \E k \in 1..Len(heap[i].children) :
              /\ IsSched(heap[i].children[k].c) /\ heap[i].children[k].t # 0
              /\ heap[heap[i].children[k].c.id].children # <<>>
        /\ Flat(i) # FlattenChildren(heap, heap[i].children, 0)
        /\ \E a \in 1..Len(Flat(i)), b \in 1..Len(Flat(i)) :
              /\ a < b /\ Flat(i)[a].t = Flat(i)[b].t
              /\ Flat(i)[a].c.dur < Flat(i)[b].c.dur

\* The timeslot map of Schedule i has the channels of the timeslot map of j.
SameChannelSet(i, j) == SetOf(heap[i].keys) = SetOf(heap[j].keys)
\* The flattened leaves of Schedule i are two leaves of one kind on one
\* channel, the second starting where the first stops.
TwoAdjacent(i) ==
    /\ Len(Flat(i)) = 2
    /\ Flat(i)[1].c.kind = Flat(i)[2].c.kind /\ Flat(i)[1].c.ch = Flat(i)[2].c.ch
    /\ Flat(i)[1].c.dur > 0 /\ Flat(i)[2].c.dur > 0
    /\ Flat(i)[2].t = Flat(i)[1].t + Flat(i)[1].c.dur
\* Schedule j holds one leaf that covers exactly the two leaves of i.
OneMerged(i, j) ==
    /\ Len(Flat(j)) = 1
    /\ Flat(j)[1].c.kind = Flat(i)[1].c.kind /\ Flat(j)[1].c.ch = Flat(i)[1].c.ch
    /\ Flat(j)[1].t = Flat(i)[1].t
    /\ Flat(j)[1].c.dur = Flat(i)[1].c.dur + Flat(i)[2].c.dur

\* C21: a == b for two Schedules is True exactly when they have the same
\* channel set, the same number of flattened leaves and equal (time, leaf)
\* pairs at every position of the time-sorted sequences; two adjacent leaves
\* are never equal to the one leaf that covers both.
C21_EqualIffSameLeaves ==
    last.op = "__eq__" =>
        /\ last.eq <=> ( /\ SameChannelSet(last.self, last.comp.id)
                         /\ Len(Flat(last.self)) = Len(Flat(last.comp.id))
                         /\ \A k \in 1..Len(Flat(last.self)) :
                               /\ k <= Len(Flat(last.comp.id))
                               /\ Flat(last.self)[k] = Flat(last.comp.id)[k] )
        /\ (TwoAdjacent(last.self) /\ OneMerged(last.self, last.comp.id)) => ~last.eq
        /\ (TwoAdjacent(last.comp.id) /\ OneMerged(last.comp.id, last.self)) => ~last.eq
\* Two Schedules of different name, metadata and nesting compare equal.
C21_Witness ==
    /\ last.op = "__eq__" /\ last.eq /\ last.self # last.comp.id
    /\ heap[last.self].name # heap[last.comp.id].name
    /\ heap[last.self].metadata # heap[last.comp.id].metadata
    /\ Flat(last.self) # <<>>
    /\ \E k \in 1..Len(heap[last.self].children) : IsSched(heap[last.self].children[k].c)
    /\ \A k \in 1..Len(heap[last.comp.id].children) :
          ~IsSched(heap[last.comp.id].children[k].c)
\* Two adjacent delays were compared with the one delay that covers both.
C21_WitnessMerged ==
    /\ last.op = "__eq__" /\ ~last.eq
    /\ TwoAdjacent(last.self) /\ OneMerged(last.self, last.comp.id)

\* C22: a set of (offset, leaf) pairs on pairwise different channels,
\* inserted into an empty Schedule in two orders, gives the same timeslot
\* map and the same duration.
C22_OrderIndependent ==
    (last.op = "orders" /\ last.err = "none" /\ last.err2 = "none") =>
        /\ heap[last.ret].iv = heap[last.ret2].iv
        /\ SetOf(heap[last.ret].keys) = SetOf(heap[last.ret2].keys)
        /\ heap[last.ret].duration = heap[last.ret2].duration
\* Three pairs were inserted in two different orders; the children lists
\* differ and the largest stop time is not that of the pair inserted last.
C22_Witness ==
    /\ last.op = "orders" /\ last.err = "none" /\ last.err2 = "none"
    /\ Len(heap[last.ret].children) = 3
    /\ heap[last.ret].children # heap[last.ret2].children
    /\ heap[last.ret].keys # heap[last.ret2].keys
    /\ heap[last.ret].duration
           > heap[last.ret].children[3].t + heap[last.ret].children[3].c.dur

\* The interval an insert of a leaf at an integer offset asks for.
NewSlot == << last.time.v, last.time.v + last.comp.dur >>

\* C23: a zero-duration interval overlaps nothing: when a zero-duration
\* instruction is inserted, _overlaps is false, in both argument orders, for
\* its interval and every interval the channel holds, and the insert does not
\* fail with Overlap.
C23_ZeroDurationNeverOverlaps ==
    ( /\ last.op = "insert" /\ last.time.int
      /\ ~IsSched(last.comp) /\ last.comp.dur = 0 )
    => /\ \A k \in 1..Len(last.pre.iv[last.comp.ch]) :
             /\ ~_overlaps(NewSlot, last.pre.iv[last.comp.ch][k])
             /\ ~_overlaps(last.pre.iv[last.comp.ch][k], NewSlot)
       /\ last.err # "Overlap"

\* Two intervals overlap: ordered by start, the second starts before the
\* first stops; an interval of length zero overlaps nothing.
Overlap(a, b) == a[1] < a[2] /\ b[1] < b[2] /\ Meets(a, b)
NoTwoOverlap(l) == \A i \in 1..Len(l), j \in 1..Len(l) : i < j => ~Overlap(l[i], l[j])

\* C24: for a sorted list L of intervals no two of which overlap and an
\* interval n, _find_insertion_index(L, n) raises when n overlaps any element
\* of L, and otherwise returns an index i such that L with n put at i is
\* sorted by start with no two intervals overlapping.
C24_InsertionIndex ==
    last.op = "_find_insertion_index" =>
        IF \E k \in 1..Len(last.intervals) : Overlap(last.intervals[k], last.interval)
        THEN last.err = "Overlap"
        ELSE /\ last.err = "none"
             /\ last.ret \in 0..Len(last.intervals)
             /\ SortedByStart(InsertAt(last.intervals, last.ret, last.interval))
             /\ NoTwoOverlap(InsertAt(last.intervals, last.ret, last.interval))

\* The time ranges the message of the last PulseError states.
RangesStated == { << last.msg.t0, last.msg.tf >> }
\* The intervals of the inserted component on channel ch, at the offset.
InsertedOn(ch) == SetOf(ShiftList(_get_timeslots(heap, last.comp)[ch], last.time.v))

\* C25: the PulseError an insert raises for an overlap names the channel of
\* the collision and states both ranges: that of the interval being inserted
\* and that of the interval already in the Schedule it collides with.
C25_OverlapNamesBothRanges ==
    (last.op = "insert" /\ last.err = "Overlap" /\ last.msg # NoMessage) =>
        \E n \in InsertedOn(last.msg.ch) :
            \E e \in SetOf(last.pre.iv[last.msg.ch]) :
                /\ Meets(e, n)
                /\ n \in RangesStated
                /\ e \in RangesStated

\* The step is an in-place insert, shift or replace on the Schedule p1.
InPlaceOn(p1) ==
    /\ last'.cls = "Schedule" /\ last'.op \in {"insert", "shift", "replace"}
    /\ last'.inplace /\ last'.self = p1
\* Schedule i and its flattened instructions are the same after the step.
Untouched(i) ==
    /\ heap'[i] = heap[i]
    /\ Instructions(heap', SchedRef(i)) = Instructions(heap, SchedRef(i))

C27_BlockFilterUnsupported ==
    (last.cls = "ScheduleBlock" /\ last.op \in {"filter", "exclude"}) =>
        /\ last.err = "Unsupported" /\ last.ret = 0
        /\ blocks[last.self] = last.pre
\* filter was called without arguments on a block that holds a nested block
\* and has a parametric alignment context.
C27_Witness ==
    /\ last.cls = "ScheduleBlock" /\ last.op = "filter" /\ last.filters = NoFilters
    /\ last.err = "Unsupported"
    /\ last.pre.alignment # {}
    /\ \E k \in 1..Len(last.pre.blocks) : IsBlock(last.pre.blocks[k])

\* The leaves of block b at every nesting depth, and the blocks of its tree.
RECURSIVE LeavesBelow(_), BlocksBelow(_)
LeavesBelow(b) ==
    UNION { IF IsBlock(blocks[b].blocks[k]) THEN LeavesBelow(blocks[b].blocks[k].id)
            ELSE { blocks[b].blocks[k] } : k \in 1..Len(blocks[b].blocks) }
BlocksBelow(b) ==
    {b} \cup UNION { IF IsBlock(blocks[b].blocks[k]) THEN BlocksBelow(blocks[b].blocks[k].id)
                     ELSE {} : k \in 1..Len(blocks[b].blocks) }
AllDurationsAssigned(b) == \A l \in LeavesBelow(b) : l.dur # DurParam

\* C28 (as stated): is_schedulable() is true exactly when the block's
\* alignment policy has no unassigned parameter and every leaf at every depth
\* has an assigned integer duration.
C28_SchedulableIffAssigned ==
    (last.cls = "ScheduleBlock" /\ last.op = "is_schedulable") =>
        (last.eq <=> (blocks[last.self].alignment = {} /\ AllDurationsAssigned(last.self)))
\* C28 (amended): is_schedulable() is true exactly when no alignment policy
\* in the block's tree, its own and those of the nested blocks, has an
\* unassigned parameter and every leaf at every depth has an assigned integer
\* duration.
C28_SchedulableIffTreeAssigned ==
    (last.cls = "ScheduleBlock" /\ last.op = "is_schedulable") =>
        (last.eq <=> ( /\ \A b \in BlocksBelow(last.self) : blocks[b].alignment = {}
                       /\ AllDurationsAssigned(last.self) ))
\* A block that holds two leaves of unassigned duration, one of them in a
\* nested block, answered False.
C28_Witness ==
    /\ last.cls = "ScheduleBlock" /\ last.op = "is_schedulable" /\ ~last.eq
    /\ blocks[last.self].alignment = {}
    /\ \E k \in 1..Len(blocks[last.self].blocks) : blocks[last.self].blocks[k] = UnassignedDelay
    /\ \E k \in 1..Len(blocks[last.self].blocks) :
          /\ IsBlock(blocks[last.self].blocks[k])
          /\ UnassignedDelay \in LeavesBelow(blocks[last.self].blocks[k].id)
\* A block that holds two leaves of assigned duration answered True.
C28_WitnessTrue ==
    /\ last.cls = "ScheduleBlock" /\ last.op = "is_schedulable" /\ last.eq
    /\ Len(blocks[last.self].blocks) = 2
    /\ Cardinality(LeavesBelow(last.self)) = 2

\* Component y of the table hpost is what component x of hpre becomes when
\* new takes the place of every element equal to old: new itself if x equals
\* old, x itself if x is an instruction, and for a block a block that holds
\* the same elements in the same order, each substituted in the same way.
RECURSIVE SubstitutedComp(_, _, _, _, _, _), SubstitutedBlock(_, _, _, _, _, _)
SubstitutedComp(hpre, hpost, x, y, old, new) ==
    IF CompEq(hpre, x, old) THEN y = new
    ELSE IF IsBlock(x)
    THEN IsBlock(y) /\ SubstitutedBlock(hpre, hpost, x.id, y.id, old, new)
    ELSE y = x
SubstitutedBlock(hpre, hpost, a, b, old, new) ==
    /\ Len(hpost[b].blocks) = Len(hpre[a].blocks)
    /\ \A k \in 1..Len(hpre[a].blocks) :
          SubstitutedComp(hpre, hpost, hpre[a].blocks[k], hpost[b].blocks[k], old, new)
\* C29: append(x) yields the previous sequence, element by element (a nested
\* block of a copy holds what the original's held), followed by x, and
\* replace puts new in the place of every matched element, at its position,
\* and keeps the other elements where they were.
C29_BlocksKeepOrder ==
    [][ /\ (last'.cls = "ScheduleBlock" /\ last'.op = "append" /\ last'.err = "none") =>
              /\ Len(blocks'[last'.ret].blocks) = Len(blocks[last'.self].blocks) + 1
              /\ blocks'[last'.ret].blocks[Len(blocks[last'.self].blocks) + 1] = last'.comp
              /\ \A k \in 1..Len(blocks[last'.self].blocks) :
                    SubstitutedComp(blocks, blocks', blocks[last'.self].blocks[k],
                                    blocks'[last'.ret].blocks[k], NoComp, NoComp)
        /\ (last'.cls = "ScheduleBlock" /\ last'.op = "replace" /\ last'.err = "none") =>
              SubstitutedBlock(blocks, blocks', last'.self, last'.ret, last'.comp,
                               last'.comp2)
      ]_vars
\* A replace put new in the place of a matched element that had another
\* element after it, and left that one where it was.
C29_Witness ==
    /\ last.cls = "ScheduleBlock" /\ last.op = "replace" /\ last.err = "none"
    /\ Len(last.pre.blocks) >= 2
    /\ last.pre.blocks[1] = last.comp
    /\ last.comp2 # last.comp
    /\ last.pre.blocks[2] # last.comp
    /\ blocks[last.ret].blocks[1] = last.comp2
    /\ blocks[last.ret].blocks[2] = last.pre.blocks[2]
\* A replace matched a nested block that is another object than old, and an
\* element of a block one level down.
C29_WitnessBlockMatch ==
    /\ last.cls = "ScheduleBlock" /\ last.op = "replace" /\ last.err = "none"
    /\ IsBlock(last.comp)
    /\ \E k \in 1..Len(last.pre.blocks) :
          /\ IsBlock(last.pre.blocks[k]) /\ last.pre.blocks[k] # last.comp
          /\ blocks[last.ret].blocks[k] = last.comp2
          /\ last.comp2 # last.pre.blocks[k]
C29_WitnessNested ==
    /\ last.cls = "ScheduleBlock" /\ last.op = "replace" /\ last.err = "none"
    /\ ~IsBlock(last.comp) /\ last.comp2 # last.comp
    /\ \E k \in 1..Len(last.pre.blocks) :
          /\ IsBlock(last.pre.blocks[k])
          /\ IsBlock(blocks[last.ret].blocks[k])
          /\ \E j \in 1..Len(blocks[blocks[last.ret].blocks[k].id].blocks) :
                blocks[blocks[last.ret].blocks[k].id].blocks[j] = last.comp2

\* The free variables of block b: those of its alignment policy and those of
\* its children at every depth.
RECURSIVE FreeVariables(_)
FreeVariables(b) ==
    blocks[b].alignment \cup
    UNION { IF IsBlock(blocks[b].blocks[k]) THEN FreeVariables(blocks[b].blocks[k].id)
            ELSE blocks[b].blocks[k].par : k \in 1..Len(blocks[b].blocks) }
\* C30: after a construction, an append or a replace, the parameter registry
\* of the block the call answers with holds exactly the free variables of
\* its alignment policy and of its children at every depth.
C30_RegistryIsFreeVariables ==
    (last.cls = "ScheduleBlock" /\ last.op \in {"init", "append", "replace"}
        /\ last.err = "none") =>
        blocks[last.ret].params = FreeVariables(last.ret)

\* The parameter sets of the current children of Schedule i in the table h.
ChildrenParameters(h, i) ==
    UNION { CompParams(h, h[i].children[k].c) : k \in 1..Len(h[i].children) }
RegistryCurrent(h, i) == h[i].params = ChildrenParameters(h, i)
\* C31: a successful insert, append, shift or replace on a Schedule whose
\* parameter set was the union of its children's parameter sets (no child
\* was changed after it was composed) leaves the Schedule it answers with
\* with a parameter set equal to the union of the parameter sets of its
\* current children.
C31_ParametersOfChildren ==
    [][ ( /\ last'.cls = "Schedule"
          /\ last'.op \in {"insert", "append", "shift", "replace"}
          /\ last'.err = "none"
          /\ nops' = nops + 1
          /\ RegistryCurrent(heap, last'.self) ) =>
            RegistryCurrent(heap', last'.ret)
      ]_vars

\* An in-place replace took out the only child with a parameter and the
\* Schedule's parameter set lost it.
C31_Witness ==
    /\ last.cls = "Schedule" /\ last.op = "replace" /\ last.err = "none" /\ last.inplace
    /\ last.pre.params # {}
    /\ last.pre.params = UNION { CompParams(heap, last.pre.children[k].c) :
                                    k \in 1..Len(last.pre.children) }
    /\ \E k \in 1..Len(last.pre.children) : last.pre.children[k].c = last.comp
    /\ last.comp2.par = {}
    /\ heap[last.ret].params = {}
\* An insert registered the parameter of the component it was given.
C31_WitnessInsert ==
    /\ last.cls = "Schedule" /\ last.op = "insert" /\ last.err = "none"
    /\ last.pre.params = {} /\ last.comp.par # {}
    /\ heap[last.ret].params = last.comp.par

\* How often the interval x occurs in the list l, and l read as a list from
\* which elements of m were taken out without moving the others.
RECURSIVE IsSubsequence(_, _)
IsSubsequence(l, m) ==
    IF l = <<>> THEN TRUE
    ELSE IF m = <<>> THEN FALSE
    ELSE IF l[1] = m[1] THEN IsSubsequence(Tail(l), Tail(m))
    ELSE IsSubsequence(l, Tail(m))
\* The intervals of the component of the last call on channel ch, shifted by
\* the time of the call.
Shifted(ch) == ShiftList(_get_timeslots(heap, last.comp)[ch], last.time.v)
ComponentChannels == SetOf(CompChannels(heap, last.comp))
\* Every channel of the component is in the map and holds each shifted
\* interval at least as often as the component does.
AllPresent ==
    \A ch \in ComponentChannels :
        /\ InSeq(last.pre.keys, ch)
        /\ \A x \in SetOf(Shifted(ch)) : Count(Shifted(ch), x) <= Count(last.pre.iv[ch], x)
\* Channel ch of Schedule s holds what it held before the call without the
\* shifted intervals of the component, and is a key exactly when something
\* is left.
RemovedFrom(s, ch) ==
    /\ IsSubsequence(heap[s].iv[ch], last.pre.iv[ch])
    /\ \A x \in SetOf(last.pre.iv[ch]) :
          Count(heap[s].iv[ch], x) =
              Count(last.pre.iv[ch], x) -
                  (IF ch \in ComponentChannels THEN Count(Shifted(ch), x) ELSE 0)
    /\ InSeq(heap[s].keys, ch) <=> heap[s].iv[ch] # <<>>
\* C32: _remove_timeslots(t, C) with an integer t raises PulseError exactly
\* when a channel of C or one of C's intervals shifted by t is absent from
\* the map, and otherwise removes from each channel of C exactly those
\* intervals, matched by equality, leaving the rest as it was.
C32_RemoveExactIntervals ==
    (last.op = "_remove_timeslots" /\ last.time.int) =>
        /\ (last.err = "none") <=> AllPresent
        /\ last.err \in {"none", "Consistency"}
        /\ last.err = "none" => \A ch \in Channels : RemovedFrom(last.self, ch)
\* A removal took one interval out of a channel that held two and left the
\* other; another one raised because the interval was not there.
C32_Witness ==
    /\ last.op = "_remove_timeslots" /\ last.err = "none"
    /\ \E ch \in Channels :
          /\ Len(last.pre.iv[ch]) = 2
          /\ Len(heap[last.self].iv[ch]) = 1
C32_WitnessRaised ==
    /\ last.op = "_remove_timeslots" /\ last.err = "Consistency"
    /\ \A ch \in ComponentChannels : InSeq(last.pre.keys, ch)

C33_WitnessNewChannel ==
    /\ last.op = "_add_then_remove" /\ last.err = "none"
    /\ last.pre.keys # <<>>
    /\ \E ch \in ComponentChannels : ~InSeq(last.pre.keys, ch) /\ ~InSeq(heap[last.self].keys, ch)

BothWays == last.op \in {"insert, both ways", "shift, both ways", "replace, both ways"}
\* C34: when insert, shift or replace with integer arguments succeeds both
\* copying and in place, the copy has the timeslot map and the flattened
\* (time, leaf) sequence that the in-place call leaves.
C34_VariantsAgree ==
    (BothWays /\ last.err = "none" /\ last.err2 = "none") =>
        /\ last.results[1].iv = last.results[2].iv
        /\ last.results[1].flat = last.results[2].flat

\* Every interval of the component of the last call starts at or after 0.
ComponentFromZero ==
    \A ch \in Channels :
        \A k \in 1..Len(_get_timeslots(PreHeap, last.comp)[ch]) :
            _get_timeslots(PreHeap, last.comp)[ch][k][1] >= 0
\* C35: an append of a component whose intervals all start at or after 0
\* never fails with an Overlap error.
C35_AppendNeverOverlaps ==
    (last.cls = "Schedule" /\ last.op = "append" /\ ComponentFromZero) =>
        last.err # "Overlap"

\* C36: two Schedules built by inserting the same (offset, leaf) pairs in
\* different orders compare equal.
C36_EqualityIgnoresOrder ==
    (last.op = "orders, compared" /\ last.err = "none" /\ last.err2 = "none") => last.eq

\* C37: _overlaps gives the same answer for (a, b) and for (b, a), for all
\* intervals with start <= stop, those of length zero among them.
C37_OverlapsSymmetric ==
    last.op = "_overlaps" => last.results[1] = last.results[2]
\* A zero-length interval strictly inside another: both orders answer True.
C37_Witness ==
    /\ last.op = "_overlaps"
    /\ last.intervals[1][1] = last.intervals[1][2]
    /\ last.intervals[2][1] < last.intervals[1][1]
    /\ last.intervals[1][1] < last.intervals[2][2]
    /\ last.results = << TRUE, TRUE >>
\* A zero-length interval at the start of another: both orders answer False.
C37_WitnessAtStart ==
    /\ last.op = "_overlaps"
    /\ last.intervals[1][1] = last.intervals[1][2]
    /\ last.intervals[2][1] = last.intervals[1][1]
    /\ last.intervals[2][2] > last.intervals[2][1]
    /\ last.results = << FALSE, FALSE >>

\* The objects a step created, in either table.
NewSchedules == (Len(heap) + 1)..Len(heap')
NewBlocks == (Len(blocks) + 1)..Len(blocks')
\* C38: a constructor call without a name takes the next value of its
\* class's counter as the name, and every name in use is below the counter,
\* so the name is new; the counters never decrease; a copying call gives the
\* result the name of self, creates no object with a new name and leaves
\* both counters alone.
C38_NamesFromCounter ==
    [][ /\ instances_counter' >= instances_counter
        /\ block_counter' >= block_counter
        /\ \A i \in 1..Len(heap') : heap'[i].name < instances_counter'
        /\ \A i \in 1..Len(blocks') : blocks'[i].name < block_counter'
        /\ (last'.cls = "Schedule" /\ last'.op = "init") =>
              /\ instances_counter' = instances_counter + 1
              /\ block_counter' = block_counter
              /\ last'.err = "none" => heap'[last'.ret].name = instances_counter
        /\ (last'.cls = "ScheduleBlock" /\ last'.op = "init") =>
              /\ block_counter' = block_counter + 1
              /\ instances_counter' = instances_counter
              /\ last'.err = "none" => blocks'[last'.ret].name = block_counter
        /\ (last'.cls = "Schedule" /\ last'.op # "init") =>
              /\ instances_counter' = instances_counter /\ block_counter' = block_counter
              /\ \A i \in NewSchedules : \E j \in 1..Len(heap) : heap'[i].name = heap[j].name
              /\ (last'.err = "none" /\ last'.ret \in NewSchedules) =>
                    heap'[last'.ret].name = heap[last'.self].name
        /\ (last'.cls = "ScheduleBlock" /\ last'.op # "init") =>
              /\ instances_counter' = instances_counter /\ block_counter' = block_counter
              /\ \A i \in NewBlocks : \E j \in 1..Len(blocks) : blocks'[i].name = blocks[j].name
              /\ (last'.err = "none" /\ last'.ret \in NewBlocks) =>
                    blocks'[last'.ret].name = blocks[last'.self].name
      ]_vars
\* Two Schedules were constructed and a copying insert answered with a
\* Schedule that has the name of the first.
C38_Witness ==
    /\ instances_counter = 2
    /\ last.cls = "Schedule" /\ last.op = "insert" /\ ~last.inplace /\ last.err = "none"
    /\ last.ret = Len(heap)
    /\ heap[last.ret].name = heap[last.self].name
    /\ \E i \in 1..Len(heap) : heap[i].name # heap[last.self].name
\* The same for two ScheduleBlocks and a copying append, with a Schedule
\* constructed in between.
C38_WitnessBlock ==
    /\ block_counter = 2 /\ instances_counter = 1
    /\ last.cls = "ScheduleBlock" /\ last.op = "append" /\ ~last.inplace /\ last.err = "none"
    /\ last.ret = Len(blocks)
    /\ blocks[last.ret].name = blocks[last.self].name
    /\ \E i \in 1..Len(blocks) : blocks[i].name # blocks[last.self].name

\* The circuit disassemble has to give for experiment x: the experiment's
\* name and one entry per instruction, in the listed order.
ListedOrder(x, circuit) ==
    /\ circuit.name = x.header.name
    /\ Len(circuit.data) = Len(x.instructions)
    /\ \A j \in 1..Len(x.instructions) : circuit.data[j] = ApplyInstruction(x, x.instructions[j])
OnePerExperiment(qobj, circuits) ==
    /\ Len(circuits) = Len(qobj.experiments)
    /\ \A k \in 1..Len(circuits) : ListedOrder(qobj.experiments[k], circuits[k])

\* C39: disassemble(qobj) returns (circuits, run_config, user_qobj_header);
\* circuits is a list with one circuit per experiment of the qobj, in
\* experiment order, each with the experiment's instructions applied in the
\* listed order.
C39_OneCircuitPerExperiment ==
    last.op = "disassemble" =>
        /\ Len(last.results) = 3
        /\ last.results[2] = last.qobj.config
        /\ last.results[3] = last.qobj.header
        /\ ~last.results[1].none
        /\ OnePerExperiment(last.qobj, last.results[1].list)
\* The same for a qobj that has an experiment.
C39_WithExperiments ==
    (last.op = "disassemble" /\ last.qobj.experiments # <<>>) =>
        /\ Len(last.results) = 3
        /\ last.results[2] = last.qobj.config
        /\ last.results[3] = last.qobj.header
        /\ ~last.results[1].none
        /\ OnePerExperiment(last.qobj, last.results[1].list)
\* Two different experiments of two different instructions each.
C39_WitnessTwoExperiments ==
    /\ last.op = "disassemble"
    /\ Len(last.qobj.experiments) = 2
    /\ last.qobj.experiments[1] # last.qobj.experiments[2]
    /\ \A k \in 1..2 : /\ Len(last.qobj.experiments[k].instructions) = 2
                       /\ last.qobj.experiments[k].instructions[1]
                            # last.qobj.experiments[k].instructions[2]
    /\ ~last.results[1].none
\* No experiment: circuits is None.
C39_WitnessNone ==
    /\ last.op = "disassemble"
    /\ last.qobj.experiments = <<>>
    /\ last.results[1].none

====
